---------------------------- MODULE Spec2Model ----------------------------
(***************************************************************************)
(* A model of swagcli: the command tree built from a Swagger document      *)
(* (commandstore.py, cli.py), the generated leaf commands (cli.py), and    *)
(* the asynchronous API client with its response cache (client.py,         *)
(* cache.py).                                                              *)
(*                                                                         *)
(* Strings.  A URL path is modelled as the sequence of its segments: the   *)
(* string "/a/{x}/b" is <<"a", "{x}", "b">>, the string "/" is <<"">> and  *)
(* the empty string is << >>.  Every segment is either a literal without   *)
(* braces or an argument "{name}", so the two regular expressions of       *)
(* commandstore.py act on whole segments.                                  *)
(***************************************************************************)
EXTENDS Integers, Sequences, FiniteSets, TLC

(***************************************************************************)
(* Bounds of the model.                                                    *)
(***************************************************************************)
\* number of path entries of the Swagger document
MaxEntries == 2
\* last instant of the clock (seconds)
MaxTime == 3
\* longest time that passes between two clock reads of one Cache.get
MaxSkew == 2
\* largest configured cache ttl (seconds)
MaxTtl == 2
\* largest configured max_retries
MaxRetries == 2
\* number of client requests of one run
MaxRequests == 2
\* number of declared parameters of a command
MaxParams == 3
\* number of command invocations of one run
MaxInvocations == 2

VARIABLES
    nodes,      \* CommandStore: the tree, an arena of Node records in creation order
    entries,    \* history: the path entries _parse_paths has processed
    calls,      \* history: the add_path calls made, with the node each one wrote
    now,        \* time.time()
    cacheConfig,\* CacheConfig: enabled, ttl
    store,      \* the diskcache store: cache key -> row
    lastSet,    \* history: the latest Cache.set call
    lastGet,    \* history: the Cache.get call just made and what it returned
    max_retries,\* Config.max_retries
    auth,       \* Config.auth of the run: the credentials of the requester
    req,        \* the APIClient._make_request call in progress or just ended;
                \* req.log is the history of its transport attempts, req.trace
                \* the order of its cache, hook and transport calls, req.evicted
                \* whether its cache lookup deleted an entry
    requests,   \* number of _make_request calls made
    fetched,    \* history: (url, query) -> the latest 200 response a caching GET got
                \* from the transport, and when it was stored
    cliPc,      \* "start", or "built" once _create_function has made the command
    parameters, \* node.parameters of the command
    payload,    \* the payload dict of the command function: slot -> name -> value
    responses,  \* node.responses of the command: the statuses with a description
    run,        \* how the latest command invocation ended
    invocations,\* number of command invocations made
    plugins,    \* PluginManager.plugins with plugin_modules, in insertion order
    lastExec,   \* history: the execute_plugin_hook call just made and its result
    lastOp,     \* history: the PluginManager operation just made
    param_config, \* the parameter config _get_param_options is given
    option_kwargs, \* what _get_param_options returned or raised
    staticCall, \* the call of a static method of Swagcli: its name and arguments
    staticResult, \* what that call returned or raised
    procs       \* the concurrent invocations that share the store: where each is
                \* in Cache.get and what it has read

treeVars == <<nodes, entries, calls>>
cacheVars == <<now, cacheConfig, store, lastSet, lastGet>>
clientVars == <<max_retries, auth, req, requests, fetched>>
cliVars == <<cliPc, parameters, payload, responses, run, invocations>>
pluginVars == <<plugins, lastExec, lastOp>>
optionVars == <<param_config, option_kwargs>>
staticVars == <<staticCall, staticResult>>
raceVars == <<procs>>
vars == <<nodes, entries, calls, now, cacheConfig, store, lastSet, lastGet,
          max_retries, auth, req, requests, fetched,
          cliPc, parameters, payload, responses, run, invocations,
          plugins, lastExec, lastOp,
          param_config, option_kwargs,
          staticCall, staticResult,
          procs>>

(***************************************************************************)
(* commandstore.py                                                         *)
(***************************************************************************)
LitSegs == {"a", "b"}
ArgSegs == {"{x}", "{y}"}
Segs == LitSegs \cup ArgSegs
HttpMethods == {"get", "post"}

\* re.search("{(.*)}", path_item): the segment holds a "{" followed by a "}"
IsArgument(seg) == seg \in ArgSegs

\* re.sub("{|}", "", path_name): the segment without its braces
StripBraces(seg) ==
    CASE seg = "{x}" -> "x"
      [] seg = "{y}" -> "y"
      [] OTHER -> seg

\* CommandStore._get_path_list: path.split("/")[1:].  The raw path already is
\* the list of its segments; the empty string has none.
_get_path_list(path) == path

ArgPositions(s) == {i \in 1..Len(s) : IsArgument(s[i])}
MinOf(S) == CHOOSE i \in S : \A j \in S : i <= j
MaxOf(S) == CHOOSE i \in S : \A j \in S : j <= i

\* pre_process_fullpath: re.sub("/{.*}", "", fullpath).  The pattern starts at
\* the first "/{" and, ".*" being greedy, ends at the last "}" of the string:
\* everything from the first argument segment to the last one is removed,
\* literal segments between them included.
pre_process_fullpath(s) ==
    IF ArgPositions(s) = {} THEN s
    ELSE SubSeq(s, 1, MinOf(ArgPositions(s)) - 1)
         \o SubSeq(s, MaxOf(ArgPositions(s)) + 1, Len(s))

NoUrl == << >>
NoMethod == "None"
RootPath == <<"">>

\* Node.__init__: is_command is None (modelled FALSE, the code only tests its
\* truth value) unless given; parent 0 is "no parent".
Node(name, fullpath, parent, is_command, config) ==
    [name |-> name, fullpath |-> fullpath, parent |-> parent,
     is_command |-> is_command, config |-> config,
     request_method |-> NoMethod, request_url |-> NoUrl,
     responses |-> "None", arguments |-> << >>, parameters |-> << >>]

NoConfig == [none |-> TRUE]

\* CommandStore.__init__: the root node "/"
RootNode == Node("/", RootPath, 0, FALSE, NoConfig)

ChildrenOf(ns, p) == {i \in 1..Len(ns) : ns[i].parent = p}

RECURSIVE SetToSortedSeq(_)
SetToSortedSeq(S) ==
    IF S = {} THEN << >>
    ELSE <<MinOf(S)>> \o SetToSortedSeq(S \ {MinOf(S)})

RECURSIVE PreOrderFrom(_, _)
RECURSIVE PreOrderAll(_, _)
\* anytree PreOrderIter: a node, then its children's subtrees in the order the
\* children were attached (a node is attached when it is created)
PreOrderFrom(ns, i) == <<i>> \o PreOrderAll(ns, SetToSortedSeq(ChildrenOf(ns, i)))
PreOrderAll(ns, cs) ==
    IF cs = << >> THEN << >>
    ELSE PreOrderFrom(ns, Head(cs)) \o PreOrderAll(ns, Tail(cs))

\* CommandStore.iterate
PreOrderIter(ns) == PreOrderFrom(ns, 1)

\* _get_node_by_path passing over the root
_get_node_by_path_BelowRoot(ns, fullpath) ==
    IF \E i \in 2..Len(ns) : ns[i].fullpath = fullpath
      THEN CHOOSE i \in 2..Len(ns) : ns[i].fullpath = fullpath
      ELSE 0

\* CommandStore._get_node_by_path: the first node in pre-order with this
\* fullpath, 0 for None
_get_node_by_path(ns, fullpath) ==
    LET order == PreOrderIter(ns)
        hits == {k \in 1..Len(order) : ns[order[k]].fullpath = fullpath}
    IN IF hits = {} THEN 0 ELSE order[MinOf(hits)]

RECURSIVE WalkPrefix(_, _, _, _)
\* add_path, lines 91-110: the loop over all segments but the last.  Returns
\* the tree and the parent for the last segment.
WalkPrefix(ns, parent, path_list, index) ==
    IF index > Len(path_list) - 1 THEN [nodes |-> ns, parent |-> parent]
    ELSE
      LET path_item == path_list[index]
          current_path == pre_process_fullpath(SubSeq(path_list, 1, index))
          node == _get_node_by_path(ns, current_path)
      IN IF IsArgument(path_item)
           THEN WalkPrefix(ns, parent, path_list, index + 1)
         ELSE IF node # 0
           THEN WalkPrefix(ns, node, path_list, index + 1)
         ELSE WalkPrefix(Append(ns, Node(path_item, current_path, parent, FALSE, NoConfig)),
                         Len(ns) + 1, path_list, index + 1)

\* a value of the document that is a list, not an object
JsonList(elems) == [is_list |-> TRUE, elems |-> elems]

\* path_config.get: a list has no attribute "get"
GetRaises(path_config) == "is_list" \in DOMAIN path_config

\* path_config.get(key, default)
ConfigGet(path_config, key, default) ==
    IF key \in DOMAIN path_config THEN path_config[key] ELSE default

\* ArgumentsOf reading, like the loop above it, all segments but the last
ArgumentsOf_SkipLast(path_list) ==
    LET args == SelectSeq(SubSeq(path_list, 1, Len(path_list) - 1), IsArgument)
    IN [k \in 1..Len(args) |-> StripBraces(args[k])]

\* add_path, lines 125-129
ArgumentsOf(path_list) ==
    LET args == SelectSeq(path_list, IsArgument)
    IN [k \in 1..Len(args) |-> StripBraces(args[k])]

\* add_path, lines 112-123: the node for the last segment: the existing
\* node with the canonical path, its config replaced, or a new command node
LeafStep(ns, parent, path, path_config) ==
    LET found == _get_node_by_path(ns, pre_process_fullpath(path))
    IN IF found # 0
         THEN [nodes |-> [ns EXCEPT ![found].config = path_config], node |-> found]
       ELSE [nodes |-> Append(ns, Node(path[Len(path)], pre_process_fullpath(path),
                                       parent, TRUE, path_config)),
             node |-> Len(ns) + 1]

\* CommandStore.add_path.  Returns the tree, the node written (0 when the
\* path has no segment and the call returns False) and what the call raised:
\* line 130 raises when path_config is no dict, after the node was made and
\* its arguments were set.
add_path(ns, path, request_url, request_method, path_config) ==
    LET path_list == _get_path_list(path) IN
    IF path_list = << >> THEN [nodes |-> ns, node |-> 0, raised |-> "None"]
    ELSE
      LET walked == WalkPrefix(ns, 1, path_list, 1)
          leaf == LeafStep(walked.nodes, walked.parent, path, path_config)
          n == leaf.node
      IN IF GetRaises(path_config)
           THEN [nodes |-> [leaf.nodes EXCEPT ![n].arguments = ArgumentsOf(path_list)],
                 node |-> n, raised |-> "AttributeError"]
           ELSE [nodes |-> [leaf.nodes EXCEPT
                        ![n].arguments = ArgumentsOf(path_list),
                        ![n].parameters = ConfigGet(path_config, "parameters", << >>),
                        ![n].request_method = request_method,
                        ![n].request_url = request_url,
                        ![n].responses = ConfigGet(path_config, "responses", "{}")],
                 node |-> n, raised |-> "None"]

(***************************************************************************)
(* cli.py: Swagcli._parse_paths                                            *)
(***************************************************************************)
BaseUrl == "https://host/v2"

\* url = f"{baseurl}{path}"
UrlOf(path) == <<BaseUrl>> \o path

\* the raw paths a document may hold: "", "/", every path of one or two
\* segments, and longer paths with arguments first, last and around a literal
LongPaths == {<<"{x}", "a", "{y}">>, <<"a", "{x}", "b">>, <<"a", "b", "{x}">>,
              <<"a", "{x}", "b", "{y}">>}
RawPaths == {<< >>, <<"">>} \cup {<<x>> : x \in Segs}
            \cup {<<x, y>> : x \in Segs, y \in Segs} \cup LongPaths

\* the keys of a path entry, in document order: conf.keys() are its methods
\* and every other key it has, such as a path-level "parameters"
MethodLists == {<<"get">>, <<"get", "post">>, <<"get", "parameters">>}

\* conf[method]: the documents modelled declare parameters and responses on
\* their get operations and neither on post; the path-level parameters are a
\* list
OpConfig(method) ==
    IF method = "get" THEN [parameters |-> <<"p">>, responses |-> "r"]
    ELSE IF method = "parameters" THEN JsonList(<<"p">>)
    ELSE [summary |-> "s"]

\* an add_path call has raised
Aborted(cs) == \E k \in 1..Len(cs) : cs[k].raised # "None"

RECURSIVE AddMethods(_, _, _, _)
\* _parse_paths, lines 118-124: one add_path call per method of the entry, at
\* path/method, or at the bare path when the entry has one method.  No
\* include/exclude regex and no path prehook are configured (the defaults).
\* A call that raises ends the loop: the exception leaves _parse_paths.
AddMethods(st, path, methods, k) ==
    IF k > Len(methods) \/ Aborted(st.calls) THEN st
    ELSE
      LET method == methods[k]
          newpath == IF Len(methods) = 1 THEN path ELSE Append(path, method)
          conf == OpConfig(method)
          res == add_path(st.nodes, newpath, UrlOf(path), method, conf)
      IN AddMethods([nodes |-> res.nodes,
                     calls |-> Append(st.calls,
                                      [path |-> newpath, url |-> UrlOf(path),
                                       method |-> method, config |-> conf,
                                       node |-> res.node, raised |-> res.raised])],
                    path, methods, k + 1)

\* _parse_paths, one iteration of the loop over the document's paths
ParsePathEntry(path, methods) ==
    /\ Len(entries) < MaxEntries
    /\ ~Aborted(calls)
    /\ \A k \in 1..Len(entries) : entries[k].path # path
    /\ LET st == AddMethods([nodes |-> nodes, calls |-> calls], path, methods, 1)
       IN /\ nodes' = st.nodes
          /\ calls' = st.calls
    /\ entries' = Append(entries, [path |-> path, methods |-> methods])
    /\ UNCHANGED <<cacheVars, clientVars, cliVars, pluginVars, optionVars, staticVars, raceVars>>

TreeInit ==
    /\ nodes = <<RootNode>>
    /\ entries = << >>
    /\ calls = << >>

TreeNext == \E path \in RawPaths, methods \in MethodLists :
                ParsePathEntry(path, methods)

(***************************************************************************)
(* models.py, cache.py                                                     *)
(***************************************************************************)
\* An Optional[Dict] argument: None, or a dict given as its set of items
NoneVal == [isNone |-> TRUE, items |-> {}]
Dict(S) == [isNone |-> FALSE, items |-> S]

\* the truth value of an Optional[Dict]: None and {} are false
Truthy(d) == ~d.isNone /\ d.items # {}

KeyRank(k) == CASE k = "a" -> 1 [] k = "b" -> 2 [] OTHER -> 3

RECURSIVE SortedItems(_)
SortedItems(S) ==
    IF S = {} THEN << >>
    ELSE LET first == CHOOSE i \in S : \A j \in S : KeyRank(i[1]) <= KeyRank(j[1])
         IN <<first>> \o SortedItems(S \ {first})

\* json.dumps(d, sort_keys=True): the items in key order
JsonDumps(d) == SortedItems(d.items)

\* Cache._get_cache_key: the joined key parts; the sha256 digest is taken to
\* be injective and "|" not to occur in a part
_get_cache_key(method, url, params, data) ==
    <<method, url>>
    \o (IF Truthy(params) THEN <<JsonDumps(params)>> ELSE << >>)
    \o (IF Truthy(data) THEN <<JsonDumps(data)>> ELSE << >>)

\* models.APIResponse
APIResponse(status_code, data, headers, elapsed) == <<status_code, data, headers, elapsed>>
StatusCodeOf(r) == r[1]
DataOf(r) == r[2]
HeadersOf(r) == r[3]
ElapsedOf(r) == r[4]
NoResponse == << >>

\* model_dump without the elapsed field
model_dump_NoElapsed(r) ==
    [status_code |-> r[1], data |-> r[2], headers |-> r[3]]

\* APIResponse.model_dump(): the dict of the four fields
model_dump(r) ==
    [status_code |-> r[1], data |-> r[2], headers |-> r[3], elapsed |-> r[4]]

\* Cache.get, lines 53-57: APIResponse(**data) when the dict has the four keys
Reconstruct(d) ==
    IF {"status_code", "data", "headers", "elapsed"} \subseteq DOMAIN d
      THEN APIResponse(d.status_code, d.data, d.headers, d.elapsed)
      ELSE NoResponse

\* diskcache.Cache.get(key) at time t: a row past its expire time is not
\* returned (and not removed)
DiskGet(st, key, t) ==
    IF key \in DOMAIN st /\ st[key].expire_time > t
      THEN [found |-> TRUE, value |-> st[key].value]
      ELSE [found |-> FALSE, value |-> << >>]

\* diskcache.Cache.set(key, value, expire) at time t; a set also culls the
\* rows that have expired
DiskSet(st, key, value, expire, t) ==
    LET kept == {k \in DOMAIN st : k # key /\ ~(st[k].expire_time < t)}
    IN [k \in kept \cup {key} |->
            IF k = key THEN [value |-> value, expire_time |-> t + expire] ELSE st[k]]

\* diskcache.Cache.delete(key)
DiskDelete(st, key) == [k \in DOMAIN st \ {key} |-> st[k]]

\* Cache.get.  The store is read at time t and the age of the entry is taken
\* at time t + e.  Returns the response (NoResponse for None) and the store.
CacheGet(st, cfg, method, url, params, data, t, e) ==
    IF ~cfg.enabled THEN [response |-> NoResponse, store |-> st]
    ELSE
      LET cache_key == _get_cache_key(method, url, params, data)
          cached_data == DiskGet(st, cache_key, t)
          timestamp == cached_data.value[1]
          dumped == cached_data.value[2]
      IN IF ~cached_data.found THEN [response |-> NoResponse, store |-> st]
         ELSE IF (t + e) - timestamp > cfg.ttl
           THEN [response |-> NoResponse, store |-> DiskDelete(st, cache_key)]
         ELSE [response |-> Reconstruct(dumped), store |-> st]

\* Cache.set at time t
CacheSet(st, cfg, method, url, api_response, params, request_data, t) ==
    IF ~cfg.enabled THEN st
    ELSE DiskSet(st, _get_cache_key(method, url, params, request_data),
                 <<t, model_dump(api_response)>>, cfg.ttl, t)

\* the arguments and responses the cache is exercised with
ParamDicts == {NoneVal, Dict({<<"a", "1">>})}
DataDicts == {NoneVal, Dict({<<"a", "1">>})}
Urls == {"https://api/u"}
JsonHeaders == "application/json"
CacheResponses == {APIResponse(200, "d1", JsonHeaders, 0), APIResponse(404, "d2", JsonHeaders, 1)}

NoCall == [called |-> FALSE]

\* a call of Cache.set
CacheSetCall(method, url, params, data, v) ==
    /\ store' = CacheSet(store, cacheConfig, method, url, v, params, data, now)
    /\ lastSet' = [called |-> TRUE, method |-> method, url |-> url, params |-> params,
                   data |-> data, response |-> v, at |-> now]
    /\ lastGet' = NoCall
    /\ UNCHANGED <<now, cacheConfig>>
    /\ UNCHANGED <<treeVars, clientVars, cliVars, pluginVars, optionVars, staticVars, raceVars>>

\* time passes between the two clock reads of a Cache.get only when the
\* second one is made: the cache is enabled and the store returned a row
SecondClockRead(st, cfg, method, url, params, data, t) ==
    cfg.enabled /\ DiskGet(st, _get_cache_key(method, url, params, data), t).found

\* a call of Cache.get, during which e seconds pass
CacheGetCall(method, url, params, data, e) ==
    /\ now + e <= MaxTime
    /\ e > 0 => SecondClockRead(store, cacheConfig, method, url, params, data, now)
    /\ LET got == CacheGet(store, cacheConfig, method, url, params, data, now, e)
       IN /\ store' = got.store
          /\ lastGet' = [called |-> TRUE, method |-> method, url |-> url,
                         params |-> params, data |-> data,
                         response |-> got.response, began |-> now]
    /\ now' = now + e
    /\ UNCHANGED <<cacheConfig, lastSet>>
    /\ UNCHANGED <<treeVars, clientVars, cliVars, pluginVars, optionVars, staticVars, raceVars>>

\* Cache.clear
CacheClearCall ==
    /\ store # << >>
    /\ store' = << >>
    /\ lastSet' = NoCall
    /\ lastGet' = NoCall
    /\ UNCHANGED <<now, cacheConfig>>
    /\ UNCHANGED <<treeVars, clientVars, cliVars, pluginVars, optionVars, staticVars, raceVars>>

\* a second passes
Tick ==
    /\ now < MaxTime
    /\ now' = now + 1
    /\ lastGet' = NoCall
    /\ UNCHANGED <<cacheConfig, store, lastSet>>
    /\ UNCHANGED <<treeVars, clientVars, cliVars, pluginVars, optionVars, staticVars, raceVars>>

CacheConfigs == [enabled : {TRUE}, ttl : 0..MaxTtl] \cup {[enabled |-> FALSE, ttl |-> MaxTtl]}

\* Cache.__init__ with an empty store directory
CacheStart ==
    /\ now = 0
    /\ store = << >>
    /\ lastSet = NoCall
    /\ lastGet = NoCall

CacheInit == cacheConfig \in CacheConfigs /\ CacheStart
CacheIdle == cacheConfig = [enabled |-> TRUE, ttl |-> MaxTtl] /\ CacheStart

CacheNext ==
    \/ \E url \in Urls, params \in ParamDicts, data \in DataDicts, v \in CacheResponses :
            CacheSetCall("GET", url, params, data, v)
    \/ \E url \in Urls, params \in ParamDicts, data \in DataDicts, e \in 0..MaxSkew :
            CacheGetCall("GET", url, params, data, e)
    \/ CacheClearCall
    \/ Tick

(***************************************************************************)
(* plugins/__init__.py: PluginManager                                      *)
(***************************************************************************)
PluginNames == {"p1", "p2"}
Hooks == {"on_request", "on_response"}

\* what a module's hook function does when called: it returns a value
\* ("files": a dict with a "files" entry), raises an Exception, or raises a
\* BaseException that is no Exception (SystemExit, KeyboardInterrupt);
\* "undefined": the module has no attribute of that name
ReturnValues == {"r1", "files"}
HookBehaviours == {"undefined", "raises", "exits"} \cup ReturnValues

\* the modules a plugin is loaded from; NoModule: the plugin was put into
\* self.plugins without an entry in self.plugin_modules
Modules ==
    [on_request : HookBehaviours, on_response : {"undefined", "r1", "raises"}]
NoModule == [on_request |-> "undefined", on_response |-> "undefined"]

\* self.plugins and self.plugin_modules: the plugins in insertion order
Plugin(name, enabled, module) == [name |-> name, enabled |-> enabled, module |-> module]

IndexOf(ps, name) ==
    IF \E i \in 1..Len(ps) : ps[i].name = name
      THEN CHOOSE i \in 1..Len(ps) : ps[i].name = name
      ELSE 0

\* self.plugins[plugin.name] = plugin; self.plugin_modules[plugin.name] = module:
\* an existing name keeps its place in the dict and gets the new objects
Register(ps, plugin) ==
    IF IndexOf(ps, plugin.name) = 0 THEN Append(ps, plugin)
    ELSE [ps EXCEPT ![IndexOf(ps, plugin.name)] = plugin]

\* enable_plugin / disable_plugin
SetEnabled(ps, name, enabled) ==
    IF IndexOf(ps, name) = 0 THEN ps
    ELSE [ps EXCEPT ![IndexOf(ps, name)].enabled = enabled]

\* line 98 with the enabled flag left out
HookRuns_IgnoreEnabled(p, hook) == p.module[hook] # "undefined"
\* lines 98-100: plugin.enabled, and module and hasattr(module, hook)
HookRuns(p, hook) == p.enabled /\ p.module[hook] # "undefined"

\* execute_plugin_hook from plugin i on: the results so far, the plugins
\* whose hook was called, and what leaves the function (except Exception
\* does not catch a BaseException)
RECURSIVE RunHooks(_, _, _, _, _)
RunHooks(ps, hook, i, results, ran) ==
    IF i > Len(ps)
      THEN [results |-> results, ran |-> ran, raised |-> "None"]
    ELSE IF ~HookRuns(ps[i], hook)
      THEN RunHooks(ps, hook, i + 1, results, ran)
    ELSE LET does == ps[i].module[hook]
             called == Append(ran, ps[i].name)
         IN IF does = "raises" THEN RunHooks(ps, hook, i + 1, results, called)
            ELSE IF does = "exits"
              THEN [results |-> << >>, ran |-> called, raised |-> "SystemExit"]
            ELSE RunHooks(ps, hook, i + 1, Append(results, does), called)

execute_plugin_hook(ps, hook) == RunHooks(ps, hook, 1, << >>, << >>)

NoExec == [called |-> FALSE]
NoOp == [op |-> "none", name |-> ""]

\* discover_plugins loading a plugin file: the plugin object it makes is
\* enabled (Plugin.enabled defaults to True)
DiscoverPlugin(name, module) ==
    /\ plugins' = Register(plugins, Plugin(name, TRUE, module))
    /\ lastOp' = [op |-> "discover", name |-> name]
    /\ lastExec' = NoExec
    /\ UNCHANGED <<treeVars, cacheVars, clientVars, cliVars, optionVars, staticVars, raceVars>>

\* enable_plugin
EnablePlugin(name) ==
    /\ plugins' = SetEnabled(plugins, name, TRUE)
    /\ lastOp' = [op |-> "enable", name |-> name]
    /\ lastExec' = NoExec
    /\ UNCHANGED <<treeVars, cacheVars, clientVars, cliVars, optionVars, staticVars, raceVars>>

\* disable_plugin
DisablePlugin(name) ==
    /\ plugins' = SetEnabled(plugins, name, FALSE)
    /\ lastOp' = [op |-> "disable", name |-> name]
    /\ lastExec' = NoExec
    /\ UNCHANGED <<treeVars, cacheVars, clientVars, cliVars, optionVars, staticVars, raceVars>>

\* a call of execute_plugin_hook
ExecutePluginHook(hook) ==
    /\ lastExec' = [called |-> TRUE, hook |-> hook]
                   @@ execute_plugin_hook(plugins, hook)
    /\ lastOp' = [op |-> "execute", name |-> ""]
    /\ UNCHANGED plugins
    /\ UNCHANGED <<treeVars, cacheVars, clientVars, cliVars, optionVars, staticVars, raceVars>>

\* PluginManager.__init__
PluginStart == lastExec = NoExec /\ lastOp = NoOp
PluginInit == plugins = << >> /\ PluginStart

PluginNext ==
    \/ \E name \in PluginNames, module \in Modules \cup {NoModule} :
            DiscoverPlugin(name, module)
    \/ \E name \in PluginNames : EnablePlugin(name)
    \/ \E name \in PluginNames : DisablePlugin(name)
    \/ \E hook \in Hooks : ExecutePluginHook(hook)

(***************************************************************************)
(* client.py: APIClient                                                    *)
(***************************************************************************)
\* what the server (or the network) does with one request
ServerAnswers ==
    [kind : {"status"}, status : {200}, body : {"d1", "d2"}]
    \cup [kind : {"status"}, status : {204, 500}, body : {""}]
    \cup [kind : {"connection_error", "timeout"}, status : {0}, body : {""}]

\* __aenter__: the session is made with raise_for_status=True, so a status of
\* 400 and more is raised as ClientResponseError; a connection failure is a
\* ClientConnectionError (both aiohttp.ClientError); the total timeout is
\* asyncio.TimeoutError, which is no ClientError
SessionRaises(answer) ==
    CASE answer.kind = "connection_error" -> "ClientError"
      [] answer.kind = "timeout" -> "TimeoutError"
      [] answer.kind = "status" /\ answer.status >= 400 -> "ClientError"
      [] OTHER -> "None"

\* method.upper()
Upper(method) ==
    CASE method \in {"get", "GET"} -> "GET"
      [] method \in {"post", "POST"} -> "POST"
      [] OTHER -> method

BaseApiUrl == "https://api"
\* url = f"{self.base_url}{path}"
ApiUrl(path) == IF path = "/u" THEN "https://api/u" ELSE BaseApiUrl

IdleRequest == [pc |-> "idle"]

\* Config.auth: none, or the api key of one of two users
NoAuth == [type |-> "none", api_key |-> ""]
AuthConfigs == {NoAuth, [type |-> "api_key", api_key |-> "k1"],
                [type |-> "api_key", api_key |-> "k2"]}

\* _get_auth_headers: no header without auth, the X-API-Key header with the
\* key for an api_key auth
_get_auth_headers(config_auth) ==
    IF config_auth.type = "api_key" /\ config_auth.api_key # ""
      THEN {<<"X-API-Key", config_auth.api_key>>}
      ELSE {}

\* one transport attempt of a call: what it raised and the response it built
\* (status: the status the server answered with, 0 when it did not answer)
Attempt(raised, response, status) ==
    [raised |-> raised, response |-> response, status |-> status]

\* the plugins of plugin_manager when the client is used: none, one whose
\* on_request returns files to upload, or a validator whose hooks reject
\* (raise ValueError)
ClientPlugins ==
    {<< >>,
     <<Plugin("p1", TRUE, [on_request |-> "files", on_response |-> "undefined"])>>,
     <<Plugin("p1", TRUE, [on_request |-> "raises", on_response |-> "raises"])>>}

\* lines 92-102 with the hooks invoked before the cache lookup
CallsBeforeLoop_HooksFirst(lookup, hit) ==
    <<"on_request">> \o (IF lookup THEN <<"cache_get">> ELSE << >>)
\* lines 92-102: the cache is looked up first, and a hit returns before the
\* on_request hooks are invoked
CallsBeforeLoop(lookup, hit) ==
    (IF lookup THEN <<"cache_get">> ELSE << >>)
    \o (IF hit THEN << >> ELSE <<"on_request">>)

\* lines 104-108: files is taken from a hook result that is a dict with "files"
FilesOf(hook_results) ==
    \E i \in 1..Len(hook_results) : hook_results[i] = "files"

\* 2 ** attempt
Pow2(n) == IF n = 0 THEN 1 ELSE IF n = 1 THEN 2 ELSE IF n = 2 THEN 4 ELSE 8

\* the latest caching GET of (url, params) that got a 200 from the transport
PriorFetch(url, params) ==
    IF <<url, params>> \in DOMAIN fetched
      THEN [present |-> TRUE, response |-> fetched[<<url, params>>].response,
            at |-> fetched[<<url, params>>].at,
            headers |-> fetched[<<url, params>>].headers]
      ELSE [present |-> FALSE, response |-> NoResponse, at |-> 0, headers |-> {}]

\* _make_request up to the first transport attempt (lines 85-115): the cache
\* lookup of a GET, the on_request hooks (files: a hook result carries
\* "files"), and the entry into the retry loop, which a max_retries below 1
\* leaves at once, the call returning None
MakeRequest(method, path, params, data, use_cache, e) ==
    /\ req.pc \in {"idle", "done"}
    /\ requests < MaxRequests
    /\ now + e <= MaxTime
    /\ LET url == ApiUrl(path)
           lookup == use_cache /\ Upper(method) = "GET"
           got == IF lookup
                    THEN CacheGet(store, cacheConfig, method, url, params, NoneVal, now, e)
                    ELSE [response |-> NoResponse, store |-> store]
           hit == got.response # NoResponse
           hooks == execute_plugin_hook(plugins, "on_request")
           call == [method |-> method, url |-> url, params |-> params, data |-> data,
                    use_cache |-> use_cache, start_time |-> now,
                    request_headers |-> _get_auth_headers(auth),
                    files |-> ~hit /\ FilesOf(hooks.results),
                    rejected |-> ~hit /\ Len(hooks.ran) > Len(hooks.results),
                    trace |-> CallsBeforeLoop(lookup, hit),
                    lookup_end |-> now + e, prior |-> PriorFetch(url, params),
                    evicted |-> got.store # store,
                    attempt |-> 0, log |-> << >>, response |-> NoResponse,
                    error |-> "None"]
       IN /\ e > 0 => (lookup /\ SecondClockRead(store, cacheConfig, method, url,
                                                 params, NoneVal, now))
          /\ store' = got.store
          /\ req' = IF hit
                      THEN [call EXCEPT !.response = got.response]
                           @@ [pc |-> "done", outcome |-> "response"]
                    ELSE IF max_retries < 1
                      THEN call @@ [pc |-> "done", outcome |-> "none"]
                    ELSE call @@ [pc |-> "attempting", outcome |-> "pending"]
    /\ now' = now + e
    /\ requests' = requests + 1
    /\ lastGet' = NoCall
    /\ UNCHANGED <<cacheConfig, lastSet, max_retries, auth, fetched>>
    /\ UNCHANGED <<treeVars, cliVars, pluginVars, optionVars, staticVars, raceVars>>

\* APIClient.get
ClientGet(path, params, use_cache, e) ==
    MakeRequest("GET", path, params, NoneVal, use_cache, e)

\* APIClient.post
ClientPost(path, data) ==
    MakeRequest("POST", path, NoneVal, data, TRUE, 0)

\* lines 122-127: with files from a hook the body fields are read with
\* data.items(), an AttributeError when data is None
FilesBranchCrashes(r) == r.files /\ r.data.isNone

\* line 182: the condition of the cache write
ShouldCache_AnyStatus(method, use_cache, status) ==
    method = "GET" /\ use_cache
ShouldCache_LowerCase(method, use_cache, status) ==
    method = "get" /\ use_cache /\ status = 200
ShouldCache(method, use_cache, status) ==
    method = "GET" /\ use_cache /\ status = 200

\* lines 185-190: a response ends the call, whatever its status
Returned_RetryUnless200(r, api_response) ==
    IF StatusCodeOf(api_response) = 200
      THEN [r EXCEPT !.pc = "done", !.outcome = "response", !.response = api_response]
      ELSE [r EXCEPT !.attempt = r.attempt + 1]
Returned(r, api_response) ==
    [r EXCEPT !.pc = "done", !.outcome = "response", !.response = api_response]

\* one attempt of the retry loop that gets a response (lines 137-190)
AttemptResponds(answer) ==
    /\ req.pc = "attempting"
    /\ req.attempt < max_retries
    /\ ~FilesBranchCrashes(req)
    /\ SessionRaises(answer) = "None"
    /\ LET api_response == APIResponse(answer.status, answer.body, JsonHeaders,
                                       now - req.start_time)
           cached == ~req.files /\ ShouldCache(req.method, req.use_cache, answer.status)
           logged == [req EXCEPT
                        !.log = Append(req.log, Attempt("None", api_response, answer.status)),
                        !.trace = req.trace \o <<"transport">>
                                  \o (IF cached THEN <<"cache_set">> ELSE << >>)
                                  \o <<"on_response">>]
       IN /\ store' = IF cached
                        THEN CacheSet(store, cacheConfig, req.method, req.url,
                                      api_response, req.params, NoneVal, now)
                        ELSE store
          /\ fetched' = IF req.method = "GET" /\ req.use_cache /\ answer.status = 200
                             /\ cacheConfig.enabled
                          THEN [k \in DOMAIN fetched \cup {<<req.url, req.params>>} |->
                                  IF k = <<req.url, req.params>>
                                    THEN [response |-> api_response, at |-> now,
                                          headers |-> req.request_headers]
                                    ELSE fetched[k]]
                          ELSE fetched
          /\ req' = Returned(logged, api_response)
    /\ UNCHANGED <<now, cacheConfig, lastSet, lastGet, max_retries, auth, requests>>
    /\ UNCHANGED <<treeVars, cliVars, pluginVars, optionVars, staticVars, raceVars>>

\* lines 191-194: the last attempt re-raises, an earlier one sleeps 2**attempt
OnClientError(r) ==
    IF r.attempt = max_retries - 1
      THEN [r EXCEPT !.pc = "done", !.outcome = "error", !.error = "ClientError"]
      ELSE [r EXCEPT !.attempt = r.attempt + 1]

\* one attempt that raises aiohttp.ClientError
AttemptClientError(answer) ==
    /\ req.pc = "attempting"
    /\ req.attempt < max_retries
    /\ ~FilesBranchCrashes(req)
    /\ SessionRaises(answer) = "ClientError"
    /\ LET slept == IF req.attempt = max_retries - 1 THEN 0 ELSE Pow2(req.attempt)
       IN /\ now + slept <= MaxTime
          /\ now' = now + slept
    /\ req' = OnClientError([req EXCEPT
                    !.log = Append(req.log, Attempt("ClientError", NoResponse, answer.status)),
                    !.trace = Append(req.trace, "transport")])
    /\ UNCHANGED <<cacheConfig, store, lastSet, lastGet, max_retries, auth, requests, fetched>>
    /\ UNCHANGED <<treeVars, cliVars, pluginVars, optionVars, staticVars, raceVars>>

\* one attempt that raises something else, which no except clause catches
AttemptOtherError(answer) ==
    /\ req.pc = "attempting"
    /\ req.attempt < max_retries
    /\ \/ /\ FilesBranchCrashes(req)
          /\ answer.kind = "timeout"
          /\ req' = [req EXCEPT !.pc = "done", !.outcome = "error",
                                !.error = "AttributeError"]
       \/ /\ ~FilesBranchCrashes(req)
          /\ SessionRaises(answer) = "TimeoutError"
          /\ req' = [req EXCEPT !.pc = "done", !.outcome = "error",
                                !.error = "TimeoutError",
                                !.log = Append(req.log, Attempt("TimeoutError", NoResponse,
                                                                answer.status)),
                                !.trace = Append(req.trace, "transport")]
    /\ UNCHANGED <<now, cacheConfig, store, lastSet, lastGet, max_retries, auth, requests, fetched>>
    /\ UNCHANGED <<treeVars, cliVars, pluginVars, optionVars, staticVars, raceVars>>

\* a second passes while the client is used
ClientTick ==
    /\ now < MaxTime
    /\ now' = now + 1
    /\ UNCHANGED <<cacheConfig, store, lastSet, lastGet>>
    /\ UNCHANGED <<treeVars, clientVars, cliVars, pluginVars, optionVars, staticVars, raceVars>>

ClientStart ==
    /\ req = IdleRequest
    /\ requests = 0
    /\ fetched = << >>

ClientInit == max_retries \in 0..MaxRetries /\ auth = NoAuth /\ ClientStart
ClientIdle == max_retries = 3 /\ auth = NoAuth /\ ClientStart

\* the plugins were discovered before the client is used
ClientPluginInit == plugins \in ClientPlugins /\ PluginStart

ClientNext ==
    \/ \E params \in ParamDicts, use_cache \in BOOLEAN, e \in 0..MaxSkew :
            ClientGet("/u", params, use_cache, e)
    \/ \E data \in DataDicts : ClientPost("/u", data)
    \/ \E answer \in ServerAnswers : AttemptResponds(answer)
    \/ \E answer \in ServerAnswers : AttemptClientError(answer)
    \/ \E answer \in ServerAnswers : AttemptOtherError(answer)
    \/ ClientTick

\* a later run with the config of another requester: a new APIClient on the
\* same cache directory (CacheConfig.storage_path)
NewRun(config_auth) ==
    /\ req.pc \in {"idle", "done"}
    /\ config_auth # auth
    /\ auth' = config_auth
    /\ req' = IdleRequest
    /\ UNCHANGED <<max_retries, requests, fetched>>
    /\ UNCHANGED <<treeVars, cacheVars, cliVars, pluginVars, optionVars, staticVars, raceVars>>

RunsInit == max_retries = 1 /\ auth \in AuthConfigs /\ ClientStart

RunsNext ==
    \/ ClientNext
    \/ \E config_auth \in AuthConfigs : NewRun(config_auth)

(***************************************************************************)
(* cli.py: the generated command functions and the request command         *)
(***************************************************************************)
\* the names and the `in` values of the declared parameters
ParamNames == {"id", "Name", "a.b"}
ParamIns == {"query", "header", "body", "formData"}
Params ==
    {p \in [name : ParamNames, in : ParamIns] :
        \/ p.in = "query" /\ p.name \in {"id", "a.b"}
        \/ p.in = "header" /\ p.name = "Name"
        \/ p.in = "body" /\ p.name = "id"
        \/ p.in = "formData" /\ p.name = "Name"}

\* the parameter lists of up to MaxParams parameters
ParamLists == UNION {[1..n -> Params] : n \in 0..MaxParams}

\* None, and the values an option can have ("" is falsy like None)
NoValue == "None"
OptionValues == {"", "v"}
Falsy(v) == v \in {NoValue, ""}

\* dict[k] = v
Put(d, k, v) == [x \in DOMAIN d \cup {k} |-> IF x = k THEN v ELSE d[x]]

\* dict.get(k, None)
Get(d, k) == IF k \in DOMAIN d THEN d[k] ELSE NoValue

\* str.lower()
Lower(name) == IF name = "Name" THEN "name" ELSE name

\* _update_payload with the slot emptied on every call
_update_payload_Reset(pl, param) ==
    Put(pl, param.in, Put(<< >>, param.name, NoValue))

\* _update_payload: `if not payload.get(data_in, False)` is true for a
\* missing slot and for an empty one
_update_payload(pl, param) ==
    LET data_in == param.in
        slot == IF data_in \notin DOMAIN pl \/ DOMAIN pl[data_in] = {}
                  THEN << >> ELSE pl[data_in]
    IN Put(pl, data_in, Put(slot, param.name, NoValue))

\* the loop of _create_function over node.parameters
RECURSIVE BuildPayload(_, _, _)
BuildPayload(pl, params, i) ==
    IF i > Len(params) THEN pl
    ELSE BuildPayload(_update_payload(pl, params[i]), params, i + 1)

\* _update_payload_value
_update_payload_value(pl, value_map) ==
    [p_type \in DOMAIN pl |->
        [arg_name \in DOMAIN pl[p_type] |->
            LET arg_value == Get(value_map, arg_name)
            IN IF Falsy(arg_value) THEN Get(value_map, Lower(arg_name))
               ELSE arg_value]]

\* _preprocess_option_name: name.replace(".", "")
_preprocess_option_name(name) == IF name = "a.b" THEN "ab" ELSE name

\* the name click gives the parameter of the option --<option_name>: the
\* option name in lower case
ClickName(name) == Lower(_preprocess_option_name(name))

\* kwargs of an invocation: click passes the value of every declared option
\* under the option's parameter name
KwargsOf(params) == [{ClickName(params[i].name) : i \in DOMAIN params} -> OptionValues]

\* self.default_headers
DefaultHeaders == << >>

\* lines 329-336 and make_request: the query slot goes into params, the
\* formData slot or else the body slot into data, and the headers are the
\* default headers
RequestOptions(request_args) ==
    [params |-> IF "query" \in DOMAIN request_args THEN request_args["query"] ELSE << >>,
     data |-> IF "formData" \in DOMAIN request_args THEN request_args["formData"]
              ELSE IF "body" \in DOMAIN request_args THEN request_args["body"]
              ELSE << >>,
     headers |-> DefaultHeaders]

\* the classes of requests.exceptions (and of a failing prehook) with
\* their base classes
Bases(exc) ==
    CASE exc = "ReadTimeout" -> {"Timeout"}
      [] exc = "ConnectTimeout" -> {"ConnectionError", "Timeout"}
      [] exc = "Timeout" -> {"RequestException"}
      [] exc = "ConnectionError" -> {"RequestException"}
      [] exc = "HTTPError" -> {"RequestException"}
      [] exc = "InvalidURL" -> {"RequestException", "ValueError"}
      [] exc = "JSONDecodeError" -> {"RequestException", "ValueError"}
      [] exc = "KeyError" -> {"Exception"}
      [] exc = "AttributeError" -> {"Exception"}
      [] exc = "ClientError" -> {"Exception"}
      [] exc = "TimeoutError" -> {"Exception"}
      [] exc = "ValueError" -> {"Exception"}
      [] exc = "RequestException" -> {"Exception"}
      [] OTHER -> {}

\* isinstance(exc(), cls)
IsInstance(exc, cls) ==
    \/ exc = cls
    \/ \E b \in Bases(exc) : b = cls \/ \E c \in Bases(b) : c = cls \/ cls \in Bases(c)

\* what session.send does: it raises, or it returns a response with a status
SendRaises == {"ReadTimeout", "ConnectTimeout", "ConnectionError", "InvalidURL"}
SendStatuses == {200, 201, 404}

\* the circumstances of one invocation of a leaf command: what the
\* transport does, whether the body decodes as JSON, the response prehook
\* (absent, or raising KeyError or HTTPError)
LeafEnvs ==
    [raised : SendRaises, status : {0}, decodable : {TRUE}, prehook : {"absent"}]
    \cup [raised : {"None"}, status : SendStatuses, decodable : BOOLEAN,
          prehook : {"absent", "KeyError", "HTTPError"}]

\* the responses maps of an operation: the statuses it describes
ResponseMaps == {{}, {201}}

\* _handle_api_response, lines 307-315: the defaults are put into the
\* response_map it is given, which is node.responses itself
WithDefaults(response_map) == response_map \cup {403, 404, 500}

\* _handle_api_response: what it raises and what it echoes
_handle_api_response(env, node_responses) ==
    LET response_map == WithDefaults(node_responses)
        output_response == IF env.status \in response_map THEN "description" ELSE NoValue
    IN IF output_response = NoValue \/ env.status = 200
         THEN IF ~env.decodable
                THEN [raised |-> "JSONDecodeError", echoed |-> NoValue]
              ELSE IF env.prehook \in {"KeyError", "HTTPError"}
                THEN [raised |-> env.prehook, echoed |-> NoValue]
              ELSE [raised |-> "None", echoed |-> "json"]
         ELSE [raised |-> "None", echoed |-> output_response]

\* the except clauses of _handle_command_run, in their order
ExceptClause(exc) ==
    IF IsInstance(exc, "ReadTimeout") THEN "Request TIMED OUT"
    ELSE IF IsInstance(exc, "HTTPError") THEN "Unable to process your request"
    ELSE IF IsInstance(exc, "ConnectionError") THEN "Unable to connect to the server"
    ELSE NoValue

\* _handle_command_run in the group function run by click: a return is exit
\* status 0, an exception that leaves the function ends the process with a
\* traceback and status 1
HowItEnds(env, node_responses) ==
    LET tried == IF env.raised # "None"
                   THEN [raised |-> env.raised, echoed |-> NoValue]
                   ELSE _handle_api_response(env, node_responses)
    IN IF tried.raised = "None"
         THEN [kind |-> "leaf", request_ok |-> TRUE, failure |-> "None",
               raised |-> "None", echoed |-> tried.echoed, exit |-> 0]
       ELSE IF ExceptClause(tried.raised) # NoValue
         THEN [kind |-> "leaf", request_ok |-> env.raised = "None",
               failure |-> tried.raised,
               raised |-> "None", echoed |-> ExceptClause(tried.raised), exit |-> 0]
       ELSE [kind |-> "leaf", request_ok |-> env.raised = "None",
             failure |-> tried.raised,
             raised |-> tried.raised, echoed |-> NoValue, exit |-> 1]

\* _handle_command_run: the request it makes from the bound values, and
\* how it ends
_handle_command_run(request_args, env, node_responses) ==
    HowItEnds(env, node_responses) @@ [request |-> RequestOptions(request_args)]

NoRun == [kind |-> "none"]

\* _create_function for a command node with these parameters and responses
CreateFunction(params, response_map) ==
    /\ cliPc = "start"
    /\ cliPc' = "built"
    /\ parameters' = params
    /\ responses' = response_map
    /\ payload' = BuildPayload(<< >>, params, 1)
    /\ UNCHANGED <<run, invocations>>
    /\ UNCHANGED <<treeVars, cacheVars, clientVars, pluginVars, optionVars, staticVars, raceVars>>

\* an invocation of the command function of a command node
InvokeLeaf(kwargs, env) ==
    /\ cliPc = "built"
    /\ invocations < MaxInvocations
    /\ kwargs \in KwargsOf(parameters)
    /\ invocations' = invocations + 1
    /\ payload' = _update_payload_value(payload, kwargs)
    /\ run' = _handle_command_run(_update_payload_value(payload, kwargs), env, responses)
               @@ [kwargs |-> kwargs]
    /\ responses' = IF env.raised = "None" THEN WithDefaults(responses) ELSE responses
    /\ UNCHANGED <<cliPc, parameters>>
    /\ UNCHANGED <<treeVars, cacheVars, clientVars, pluginVars, optionVars, staticVars, raceVars>>

\* the circumstances of one invocation of the request command: the --data
\* and --params strings parse or not, typer.run_async is there or not, and
\* _make_request ends with a response, with an error, or with None
RequestMethods == {"GET", "post", "PATCH"}
RequestEnvs ==
    [parses : {TRUE}, run_async : {TRUE},
     outcome : {"response", "ClientError", "TimeoutError", "none"}]
    \cup {[parses |-> FALSE, run_async |-> TRUE, outcome |-> "response"],
          [parses |-> TRUE, run_async |-> FALSE, outcome |-> "response"]}

\* the request command: every exception is printed and becomes typer.Exit(1)
RequestResult(method, env) ==
    LET raised ==
          IF ~env.parses THEN "JSONDecodeError"
          ELSE IF ~env.run_async THEN "AttributeError"
          ELSE IF Upper(method) \notin {"GET", "POST", "PUT", "DELETE"} THEN "ValueError"
          ELSE IF env.outcome = "none" THEN "AttributeError"
          ELSE IF env.outcome = "response" THEN "None"
          ELSE env.outcome
        sent == env.parses /\ env.run_async
                /\ Upper(method) \in {"GET", "POST", "PUT", "DELETE"}
    IN [kind |-> "request", request_ok |-> sent /\ env.outcome = "response",
        failure |-> raised, raised |-> "None",
        echoed |-> IF raised = "None" THEN "Response" ELSE "Error",
        exit |-> IF raised = "None" THEN 0 ELSE 1]

\* an invocation of the request command
RequestCommand(method, env) ==
    /\ invocations < MaxInvocations
    /\ invocations' = invocations + 1
    /\ run' = RequestResult(method, env)
    /\ UNCHANGED <<cliPc, parameters, payload, responses>>
    /\ UNCHANGED <<treeVars, cacheVars, clientVars, pluginVars, optionVars, staticVars, raceVars>>

CliInit ==
    /\ cliPc = "start"
    /\ parameters = << >>
    /\ payload = << >>
    /\ responses = {}
    /\ run = NoRun
    /\ invocations = 0

CliNext ==
    \/ \E params \in ParamLists, response_map \in ResponseMaps :
            CreateFunction(params, response_map)
    \/ \E kwargs \in KwargsOf(parameters), env \in LeafEnvs : InvokeLeaf(kwargs, env)
    \/ \E method \in RequestMethods, env \in RequestEnvs : RequestCommand(method, env)

(***************************************************************************)
(* Swagcli._get_param_options (cli.py): the click option of a parameter    *)
(***************************************************************************)
\* A JSON value of a parameter config: a scalar or a list of scalars.  The
\* scalars are written as in Python: "0" and "5" are integers, "False" is
\* the boolean, "" and every other string are strings.
Scalar(a) == [list |-> FALSE, elems |-> <<a>>]
List(s) == [list |-> TRUE, elems |-> s]
\* dict.get(key) of a key the dict does not have: None
Absent == [list |-> FALSE, elems |-> << >>]

\* the truth value Python gives a value: None, 0, False, "" and [] are false
PyBool(value) ==
    IF value.list THEN value.elems # << >>
    ELSE value.elems # << >> /\ value.elems[1] \notin {"0", "False", ""}

\* isinstance(value, list)
IsList(value) == value.list

\* the keys _prepare_args reads from a parameter or from its items
OptionFields ==
    [type : {Absent, Scalar("integer"), Scalar("string"), Scalar("array")},
     enum : {Absent, List(<< >>), List(<<"a", "b">>)},
     description : {Absent, Scalar("d")},
     default : {Absent, Scalar("0"), Scalar("5"), Scalar("False"), Scalar(""),
                Scalar("x"), List(<<"x">>)}]

ItemFields ==
    [type : {Absent, Scalar("integer")},
     enum : {Absent, List(<<"a", "b">>)},
     description : {Absent, Scalar("i")},
     default : {Absent, Scalar("0"), Scalar("7"), List(<<"y">>)}]

\* a parameter config: its own keys, "required" (FALSE when absent), and
\* "items", a sequence that is empty when the key is absent
ParamConfigs ==
    [own : OptionFields, required : BOOLEAN, items : {<< >>} \cup {<<i>> : i \in ItemFields}]

\* _prepare_args, lines 205-210: a key is copied when its value is truthy
_prepare_args(tmp_options, local_param) ==
    [type |-> IF PyBool(local_param.type) THEN local_param.type ELSE tmp_options.type,
     enum |-> IF PyBool(local_param.enum) THEN local_param.enum ELSE tmp_options.enum,
     help |-> IF PyBool(local_param.description)
                THEN local_param.description ELSE tmp_options.help,
     default |-> IF PyBool(local_param.default)
                   THEN local_param.default ELSE tmp_options.default]

\* the empty dict _prepare_args starts from
NoTmpOptions == [type |-> Absent, enum |-> Absent, help |-> Absent, default |-> Absent]

\* data_type_map.get(type, str), and click.Choice when an enum is there
OptionType(tmp_options) ==
    IF tmp_options.type = Absent THEN "absent"
    ELSE IF tmp_options.enum # Absent THEN "Choice"
    ELSE IF tmp_options.type = Scalar("integer") THEN "int"
    ELSE "str"

\* _update_args, lines 212-223
_update_args(option_kwargs_in, tmp_options) ==
    [raised |-> "None",
     required |-> option_kwargs_in.required,
     multiple |-> option_kwargs_in.multiple,
     type |-> OptionType(tmp_options),
     choices |-> IF OptionType(tmp_options) = "Choice" THEN tmp_options.enum ELSE Absent,
     help |-> tmp_options.help,
     default |-> tmp_options.default]

\* lines 231-234: a default that is not a list becomes a one-element list
DefaultAsList(tmp_options) ==
    IF tmp_options.default # Absent /\ ~IsList(tmp_options.default)
      THEN [tmp_options EXCEPT !.default = List(tmp_options.default.elems)]
      ELSE tmp_options

\* what the call leaves when it raises
OptionsRaised(exc) ==
    [raised |-> exc, required |-> FALSE, multiple |-> FALSE, type |-> "absent",
     choices |-> Absent, help |-> Absent, default |-> Absent]

\* _get_param_options, lines 187-235
_get_param_options(p) ==
    LET tmp_options == _prepare_args(NoTmpOptions, p.own)
    IN  IF tmp_options.type = Scalar("array")
          THEN IF p.items = << >>
                 THEN OptionsRaised("AttributeError")
                 ELSE _update_args([required |-> p.required, multiple |-> TRUE],
                                   DefaultAsList(_prepare_args(tmp_options, p.items[1])))
          ELSE _update_args([required |-> p.required, multiple |-> FALSE], tmp_options)

\* no call made yet
NoOptions == OptionsRaised("unset")

GetParamOptions ==
    /\ option_kwargs = NoOptions
    /\ option_kwargs' = _get_param_options(param_config)
    /\ UNCHANGED param_config
    /\ UNCHANGED <<treeVars, cacheVars, clientVars, cliVars, pluginVars, staticVars, raceVars>>

OptionsIdle ==
    /\ param_config = [own |-> NoTmpOptions, required |-> FALSE, items |-> << >>]
    /\ option_kwargs = NoOptions

OptionsInit ==
    /\ param_config \in ParamConfigs
    /\ option_kwargs = NoOptions

OptionsNext == GetParamOptions

(***************************************************************************)
(* cli.py: the static methods that bind values and resolve the URL         *)
(***************************************************************************)
\* the value maps _update_payload_value is called with: any keys, and any
\* values, None and the empty string included
BindKeys == {"id", "Name", "name"}
BindValues == {NoValue, "", "v", "w"}
ValueMaps == UNION {[keys -> BindValues] : keys \in SUBSET BindKeys}

\* the payloads it is called with: one slot with some of the names
BindPayloads ==
    {[p_type \in {"query"} |-> [arg_name \in names |-> NoValue]] :
        names \in (SUBSET {"id", "Name"}) \ {{}}}

\* A request URL is the sequence of its pieces: text, and the placeholders
\* "{...}".  A value is substituted as one piece; one that reads "{id}" is
\* the same piece as the placeholder.
UrlText == {"/pets/"}
Placeholders == {"{id}", "{ID}", "{a.b}", "{axb}", "{other}"}
UrlPieces == UrlText \cup Placeholders
RequestUrls == UNION {[1..n -> UrlPieces] : n \in 0..2}

\* the name between the braces, lower-cased
PlaceholderName(piece) ==
    CASE piece \in {"{id}", "{ID}"} -> "id"
      [] piece = "{a.b}" -> "a.b"
      [] piece = "{axb}" -> "axb"
      [] piece = "{other}" -> "other"
      [] OTHER -> NoValue

\* the path slot: its (key, value) items in insertion order, keys distinct
PathKeys == {"id", "a.b"}
PathValues == {NoValue, "7", "{id}", "\\d"}
PathItems ==
    {items \in UNION {[1..n -> PathKeys \X PathValues] : n \in 0..2} :
        \A i, j \in DOMAIN items : items[i][1] = items[j][1] => i = j}

\* str(value)
Str(value) == value

\* re.sub compiles "{" + key.lower() + "}" as a pattern, in which "." stands
\* for any character, and matches it with re.IGNORECASE
PatternMatches(key, piece) ==
    CASE key = "id" -> piece \in {"{id}", "{ID}"}
      [] key = "a.b" -> piece \in {"{a.b}", "{axb}"}
      [] OTHER -> FALSE

\* re.sub takes the replacement as a template, which it parses before it
\* looks for a match: a backslash followed by a letter that is no known
\* escape is re.error
BadEscape(value) == value = "\\d"

\* one re.sub(regex, str(value), request_url, flags=re.IGNORECASE)
Sub(key, value, request_url) ==
    [i \in DOMAIN request_url |->
        IF PatternMatches(key, request_url[i]) THEN Str(value) ELSE request_url[i]]

\* _process_url_args: one re.sub after the other over the items of the path
\* slot, each on the result of the one before
RECURSIVE _process_url_args(_, _)
_process_url_args(path_items, request_url) ==
    IF path_items = << >> THEN [raised |-> "None", url |-> request_url]
    ELSE IF BadEscape(Str(Head(path_items)[2]))
      THEN [raised |-> "re.error", url |-> << >>]
    ELSE _process_url_args(Tail(path_items),
                           Sub(Lower(Head(path_items)[1]), Head(path_items)[2],
                               request_url))

NoStatic == [fn |-> "none"]

UpdatePayloadValue(pl, value_map) ==
    /\ staticCall = NoStatic
    /\ staticCall' = [fn |-> "_update_payload_value", payload |-> pl,
                      value_map |-> value_map]
    /\ staticResult' = _update_payload_value(pl, value_map)
    /\ UNCHANGED <<treeVars, cacheVars, clientVars, cliVars, pluginVars, optionVars, raceVars>>

ProcessUrlArgs(path_items, request_url) ==
    /\ staticCall = NoStatic
    /\ staticCall' = [fn |-> "_process_url_args", path_items |-> path_items,
                      request_url |-> request_url]
    /\ staticResult' = _process_url_args(path_items, request_url)
    /\ UNCHANGED <<treeVars, cacheVars, clientVars, cliVars, pluginVars, optionVars, raceVars>>

StaticInit ==
    /\ staticCall = NoStatic
    /\ staticResult = NoStatic

StaticNext ==
    \/ \E pl \in BindPayloads, value_map \in ValueMaps : UpdatePayloadValue(pl, value_map)
    \/ \E path_items \in PathItems, request_url \in RequestUrls :
            ProcessUrlArgs(path_items, request_url)

(***************************************************************************)
(* cache.py: Cache.get and Cache.set of invocations that share the store   *)
(***************************************************************************)
Procs == {"i1", "i2"}
IdleProc == [pc |-> "idle"]

\* the one request the invocations make
RaceUrl == "https://api/u"
RaceKey == _get_cache_key("GET", RaceUrl, NoneVal, NoneVal)

\* the record of a completed Cache.get
GetReturned(response, began) ==
    [called |-> TRUE, method |-> "GET", url |-> RaceUrl, params |-> NoneVal,
     data |-> NoneVal, response |-> response, began |-> began, ended |-> now]

\* a get that was in flight when a set was made is no get that follows it
FollowsSet(p) == ~procs[p].stale

\* Cache.get, lines 38-45: the store is read; the call returns None when
\* the cache is disabled or the store has no row for the key
GetReads(p) ==
    /\ procs[p].pc = "idle"
    /\ LET cached_data == DiskGet(store, RaceKey, now)
       IN IF ~cacheConfig.enabled \/ ~cached_data.found
            THEN /\ lastGet' = GetReturned(NoResponse, now)
                 /\ UNCHANGED procs
            ELSE /\ procs' = [procs EXCEPT ![p] =
                                [pc |-> "read", cached_data |-> cached_data.value,
                                 began |-> now, stale |-> FALSE]]
                 /\ UNCHANGED lastGet
    /\ UNCHANGED <<now, cacheConfig, store, lastSet>>
    /\ UNCHANGED <<treeVars, clientVars, cliVars, pluginVars, optionVars, staticVars>>

\* lines 47-57: the clock is read and the age of the row compared with the
\* ttl; a row that is young enough is returned
GetChecks(p) ==
    /\ procs[p].pc = "read"
    /\ IF now - procs[p].cached_data[1] > cacheConfig.ttl
         THEN /\ procs' = [procs EXCEPT ![p].pc = "deleting"]
              /\ UNCHANGED lastGet
         ELSE /\ procs' = [procs EXCEPT ![p] = IdleProc]
              /\ lastGet' = IF FollowsSet(p)
                              THEN GetReturned(Reconstruct(procs[p].cached_data[2]),
                                               procs[p].began)
                              ELSE lastGet
    /\ UNCHANGED <<now, cacheConfig, store, lastSet>>
    /\ UNCHANGED <<treeVars, clientVars, cliVars, pluginVars, optionVars, staticVars>>

\* lines 49-50: self.cache.delete(cache_key), whatever row the key has now
GetDeletes(p) ==
    /\ procs[p].pc = "deleting"
    /\ store' = DiskDelete(store, RaceKey)
    /\ procs' = [procs EXCEPT ![p] = IdleProc]
    /\ lastGet' = IF FollowsSet(p) THEN GetReturned(NoResponse, procs[p].began)
                  ELSE lastGet
    /\ UNCHANGED <<now, cacheConfig, lastSet>>
    /\ UNCHANGED <<treeVars, clientVars, cliVars, pluginVars, optionVars, staticVars>>

\* Cache.set by an invocation, one diskcache transaction
RaceSet(p, v) ==
    /\ procs[p].pc = "idle"
    /\ store' = CacheSet(store, cacheConfig, "GET", RaceUrl, v, NoneVal, NoneVal, now)
    /\ lastSet' = [called |-> TRUE, method |-> "GET", url |-> RaceUrl,
                   params |-> NoneVal, data |-> NoneVal, response |-> v, at |-> now,
                   racing |-> \E q \in Procs : procs[q].pc # "idle"]
    /\ lastGet' = NoCall
    /\ procs' = [q \in Procs |->
                    IF procs[q].pc = "idle" THEN procs[q]
                    ELSE [procs[q] EXCEPT !.stale = TRUE]]
    /\ UNCHANGED <<now, cacheConfig>>
    /\ UNCHANGED <<treeVars, clientVars, cliVars, pluginVars, optionVars, staticVars>>

\* a second passes
RaceTick ==
    /\ now < MaxTime
    /\ now' = now + 1
    /\ UNCHANGED <<cacheConfig, store, lastSet, lastGet, procs>>
    /\ UNCHANGED <<treeVars, clientVars, cliVars, pluginVars, optionVars, staticVars>>

RaceInit == procs = [p \in Procs |-> IdleProc]

RaceNext ==
    \/ \E p \in Procs : GetReads(p)
    \/ \E p \in Procs : GetChecks(p)
    \/ \E p \in Procs : GetDeletes(p)
    \/ \E p \in Procs, v \in CacheResponses : RaceSet(p, v)
    \/ RaceTick

InitTree == TreeInit /\ CacheIdle /\ ClientIdle /\ CliInit /\ PluginInit /\ OptionsIdle /\ StaticInit /\ RaceInit
InitCache == TreeInit /\ CacheInit /\ ClientIdle /\ CliInit /\ PluginInit /\ OptionsIdle /\ StaticInit /\ RaceInit
InitClient == TreeInit /\ CacheInit /\ ClientInit /\ CliInit /\ ClientPluginInit /\ OptionsIdle /\ StaticInit /\ RaceInit
InitOptions == TreeInit /\ CacheIdle /\ ClientIdle /\ CliInit /\ PluginInit /\ OptionsInit /\ StaticInit /\ RaceInit
InitCli == TreeInit /\ CacheIdle /\ ClientIdle /\ CliInit /\ PluginInit /\ OptionsIdle /\ StaticInit /\ RaceInit
InitPlugins == TreeInit /\ CacheIdle /\ ClientIdle /\ CliInit /\ PluginInit /\ OptionsIdle /\ StaticInit /\ RaceInit
InitStatic == TreeInit /\ CacheIdle /\ ClientIdle /\ CliInit /\ PluginInit /\ OptionsIdle /\ StaticInit /\ RaceInit
InitRace == TreeInit /\ CacheInit /\ ClientIdle /\ CliInit /\ PluginInit /\ OptionsIdle /\ StaticInit /\ RaceInit
InitRuns == TreeInit /\ CacheIdle /\ RunsInit /\ CliInit /\ PluginInit /\ OptionsIdle /\ StaticInit /\ RaceInit

SpecTree == InitTree /\ [][TreeNext]_vars
SpecCache == InitCache /\ [][CacheNext]_vars
SpecClient == InitClient /\ [][ClientNext]_vars
SpecCli == InitCli /\ [][CliNext]_vars
SpecPlugins == InitPlugins /\ [][PluginNext]_vars
SpecOptions == InitOptions /\ [][OptionsNext]_vars
SpecStatic == InitStatic /\ [][StaticNext]_vars
SpecRace == InitRace /\ [][RaceNext]_vars
SpecRuns == InitRuns /\ [][RunsNext]_vars

(***************************************************************************)
(* Properties of the command tree                                          *)
(***************************************************************************)
\* the canonical path of the specification: the raw path with its argument
\* segments removed; the string of no segment is ""
IsLiteral(seg) == ~IsArgument(seg)
Canonical(path) == SelectSeq(path, IsLiteral)

\* a raw path of a well-formed document: at least one segment, none empty
Ordinary(path) == path # << >> /\ \A i \in 1..Len(path) : path[i] # ""

CommandNodes == {i \in 1..Len(nodes) : nodes[i].is_command}

NoCanonicalCollision ==
    \A i, j \in 1..Len(calls) :
        i # j => Canonical(calls[i].path) # Canonical(calls[j].path)

OrdinaryDocument == \A k \in 1..Len(entries) : Ordinary(entries[k].path)

\* C1: after _parse_paths has processed a document whose N (path, method)
\* pairs have pairwise different canonical paths, the tree has exactly N
\* nodes with is_command true.
C1_CommandCount ==
    (OrdinaryDocument /\ NoCanonicalCollision)
        => Cardinality(CommandNodes) = Len(calls)

\* the fullpath of the group a path's method leaves hang under
GroupPath(path) == IF Canonical(path) = << >> THEN RootPath ELSE Canonical(path)

RegisteredAtBarePath(e) ==
    \E n \in 1..Len(nodes) :
        /\ nodes[n].fullpath = Canonical(e.path)
        /\ nodes[n].request_method = e.methods[1]
        /\ nodes[n].request_url = UrlOf(e.path)

RegisteredPerMethod(e) ==
    \A k \in 1..Len(e.methods) :
        \E n \in 1..Len(nodes) :
            /\ nodes[n].fullpath = Canonical(Append(e.path, e.methods[k]))
            /\ nodes[n].is_command
            /\ nodes[n].request_method = e.methods[k]
            /\ nodes[n].request_url = UrlOf(e.path)
            /\ nodes[n].parent # 0
            /\ nodes[nodes[n].parent].fullpath = GroupPath(e.path)

\* C6: every path entry with one method is registered at the bare path;
\* every entry with M >= 2 methods has M command leaves at path/method, each
\* with its own request_method and the entry's request_url, all children of
\* the node for the path.  (Stated for documents without canonical-path
\* collisions, the lossy case the specification documents.)
C6_MethodLeaves ==
    (OrdinaryDocument /\ NoCanonicalCollision)
        => \A k \in 1..Len(entries) :
              IF Len(entries[k].methods) = 1
                THEN RegisteredAtBarePath(entries[k])
                ELSE RegisteredPerMethod(entries[k])

\* the argument names of a raw path, left to right
RECURSIVE NamesLeftToRight(_)
NamesLeftToRight(path) ==
    IF path = << >> THEN << >>
    ELSE (CASE Head(path) = "{x}" -> <<"x">>
            [] Head(path) = "{y}" -> <<"y">>
            [] OTHER -> << >>) \o NamesLeftToRight(Tail(path))

LastWriter(k) ==
    \A j \in (k + 1)..Len(calls) : calls[j].node # calls[k].node

\* C7: the node that receives the operation of a path with K {name}
\* segments has K arguments, the names without braces in path order.
C7_Arguments ==
    \A k \in 1..Len(calls) :
        (calls[k].node # 0 /\ LastWriter(k))
            => /\ nodes[calls[k].node].arguments = NamesLeftToRight(calls[k].path)
               /\ Len(nodes[calls[k].node].arguments)
                    = Cardinality(ArgPositions(calls[k].path))

\* a path with arguments in its first and last segment has been added
C7_Witness ==
    \E k \in 1..Len(calls) :
        /\ calls[k].node # 0
        /\ IsArgument(calls[k].path[1])
        /\ IsArgument(calls[k].path[Len(calls[k].path)])
        /\ nodes[calls[k].node].arguments = <<"x", "y">>
(***************************************************************************)
(* Properties of the response cache                                        *)
(***************************************************************************)
SameRequest(s, g) ==
    /\ s.method = g.method
    /\ s.url = g.url
    /\ s.params = g.params
    /\ s.data = g.data

C4_Expired ==
    /\ lastSet.called /\ lastGet.called /\ cacheConfig.enabled
    /\ SameRequest(lastSet, lastGet)
    /\ lastGet.began - lastSet.at > cacheConfig.ttl
    /\ lastGet.response = NoResponse

(***************************************************************************)
(* Properties of APIClient._make_request                                   *)
(***************************************************************************)
Attempts(r) == Len(r.log)

\* the call went to the transport loop: it was not served from the cache
\* and did not fail before the transport was called
WentToTransport(r) ==
    /\ r.pc = "done"
    /\ ~(r.outcome = "response" /\ r.log = << >>)
    /\ r.error # "AttributeError"

AllClientErrors(r) == \A i \in 1..Len(r.log) : r.log[i].raised = "ClientError"

\* C2: a call whose every transport attempt raises a client error makes
\* exactly max_retries attempts and ends by raising that error, for every
\* max_retries including 0; no call ends with neither a response nor an
\* error.
C2_RetryBound ==
    /\ req.pc # "idle" => Attempts(req) <= max_retries
    /\ req.pc = "done" => req.outcome \in {"response", "error"}
    /\ (WentToTransport(req) /\ AllClientErrors(req)) =>
          /\ Attempts(req) = max_retries
          /\ req.outcome = "error"
          /\ req.error = "ClientError"

\* C2 for a max_retries of 1 and more
C2_RetryBoundPositive == max_retries >= 1 => C2_RetryBound

\* C3: a GET with caching enabled and use_cache set, whose (url, query) got
\* a 200 from the transport that was stored less than ttl seconds before the
\* lookup ends, returns that stored response and makes no transport call.
C3_CachedGet ==
    (/\ req.pc # "idle"
     /\ req.method = "GET" /\ req.use_cache /\ cacheConfig.enabled
     /\ req.prior.present
     /\ req.lookup_end - req.prior.at < cacheConfig.ttl) =>
        /\ req.pc = "done"
        /\ req.outcome = "response"
        /\ req.response = req.prior.response
        /\ req.log = << >>

\* a GET a second or more after the fetch that was served the stored response
C3_Witness ==
    /\ req.pc = "done"
    /\ req.method = "GET" /\ req.use_cache /\ cacheConfig.enabled
    /\ req.prior.present
    /\ req.start_time > req.prior.at
    /\ req.lookup_end - req.prior.at < cacheConfig.ttl
    /\ req.response = req.prior.response
    /\ req.log = << >>

\* C9: an attempt that gets a response is the last attempt of its call, and
\* the call returns that response, whatever its status and however many
\* attempts failed before it.
C9_FirstSuccess ==
    req.pc # "idle" =>
      \A i \in 1..Len(req.log) :
        req.log[i].raised = "None" =>
          /\ i = Len(req.log)
          /\ req.pc = "done"
          /\ req.outcome = "response"
          /\ req.response = req.log[i].response

\* a call whose first attempt raised a client error and whose second one got
\* a 204, which it returned
C9_Witness ==
    /\ req.pc = "done"
    /\ Len(req.log) = 2
    /\ req.log[1].raised = "ClientError"
    /\ req.log[2].raised = "None"
    /\ req.outcome = "response"
    /\ StatusCodeOf(req.response) = 204
    /\ ElapsedOf(req.response) = 1

(***************************************************************************)
(* Properties of the generated commands and of the request command         *)
(***************************************************************************)
Range(seq) == {seq[i] : i \in 1..Len(seq)}

\* the (slot, name) pairs of a payload
SlotNames(pl) == {<<s, n>> : s \in DOMAIN pl, n \in ParamNames} \cap
                 UNION {{<<s, n>> : n \in DOMAIN pl[s]} : s \in DOMAIN pl}

\* C5: an invocation of a leaf command ends with a message echoed and with
\* no exception leaving _handle_command_run, whatever fails in it.
C5_NoExceptionPropagates ==
    run.kind = "leaf" => (run.raised = "None" /\ run.echoed # NoValue)

\* C5 for the three failures with an except clause
C5_CaughtFailures ==
    (run.kind = "leaf" /\ run.failure \in {"ReadTimeout", "ConnectTimeout",
                                            "ConnectionError", "HTTPError"}) =>
        (run.raised = "None" /\ run.echoed # NoValue)

\* C8: the payload of a command holds, under each slot, exactly the names of
\* the parameters declared with that `in` value, after it is built and
\* after every invocation.
C8_SlotPartition ==
    cliPc = "built" =>
        SlotNames(payload) = {<<p.in, p.name>> : p \in Range(parameters)}

\* a command with two parameters in one slot and a third in another one,
\* invoked twice, with a value filled in
C8_Witness ==
    /\ cliPc = "built"
    /\ invocations = 2
    /\ Len(parameters) = 3
    /\ \E s \in DOMAIN payload : Cardinality(DOMAIN payload[s]) = 2
    /\ \E s \in DOMAIN payload : \E n \in DOMAIN payload[s] :
            Cardinality(DOMAIN payload[s]) = 1 /\ payload[s][n] = "v"

\* C10: an invocation exits with status 0 only if its request succeeded, and
\* one whose request failed prints a message and exits with a non-zero
\* status.
C10_ExitStatus ==
    run.kind # "none" =>
        /\ run.exit = 0 => run.request_ok
        /\ ~run.request_ok => (run.echoed # NoValue /\ run.exit # 0)

\* C10 for the request command alone
C10_RequestCommand == run.kind = "request" => C10_ExitStatus

(***************************************************************************)
(* Properties of PluginManager                                             *)
(***************************************************************************)
\* the plugin's hook is due to run and returns a value
Returns(p, hook) == p.enabled /\ p.module[hook] \in ReturnValues

\* the plugin's hook is due to run
Defines(p, hook) == p.enabled /\ p.module[hook] # "undefined"

\* the return values, in registration order, of the hooks that are due to
\* run and return
RECURSIVE ExpectedResults(_, _, _)
ExpectedResults(ps, hook, i) ==
    IF i > Len(ps) THEN << >>
    ELSE (IF Returns(ps[i], hook) THEN <<ps[i].module[hook]>> ELSE << >>)
         \o ExpectedResults(ps, hook, i + 1)

\* the names, in registration order, of the plugins whose hook is due to run
RECURSIVE ExpectedRan(_, _, _)
ExpectedRan(ps, hook, i) ==
    IF i > Len(ps) THEN << >>
    ELSE (IF Defines(ps[i], hook) THEN <<ps[i].name>> ELSE << >>)
         \o ExpectedRan(ps, hook, i + 1)

\* a hook that is due to run raises a BaseException that is no Exception
SomeHookExits(ps, hook) ==
    \E i \in 1..Len(ps) : ps[i].enabled /\ ps[i].module[hook] = "exits"

\* only the hooks of enabled plugins were called
OnlyEnabledRan ==
    \A i \in 1..Len(lastExec.ran) :
        /\ IndexOf(plugins, lastExec.ran[i]) # 0
        /\ Defines(plugins[IndexOf(plugins, lastExec.ran[i])], lastExec.hook)

\* the call returned the values of all hooks that are due to run and return
ReturnedAllResults ==
    /\ lastExec.raised = "None"
    /\ lastExec.results = ExpectedResults(plugins, lastExec.hook, 1)
    /\ lastExec.ran = ExpectedRan(plugins, lastExec.hook, 1)

\* a disabled plugin becomes enabled in a step of one of these operations
\* on its name only
EnabledOnlyBy(ops) ==
    \A n \in PluginNames :
        (/\ IndexOf(plugins, n) # 0
         /\ ~plugins[IndexOf(plugins, n)].enabled
         /\ plugins'[IndexOf(plugins', n)].enabled) =>
            (lastOp'.op \in ops /\ lastOp'.name = n)

HookResultsAsStated == lastExec.called => (OnlyEnabledRan /\ ReturnedAllResults)

HookResultsUnlessExit ==
    lastExec.called =>
        /\ OnlyEnabledRan
        /\ ~SomeHookExits(plugins, lastExec.hook) => ReturnedAllResults
        /\ SomeHookExits(plugins, lastExec.hook) => lastExec.raised = "SystemExit"

\* C13: execute_plugin_hook returns, in registration order, exactly the
\* values of the hooks of enabled plugins that define the hook and do not
\* raise; no hook that raises stops the later ones or raises out of the
\* call; a disabled plugin is enabled again by enable_plugin only.
C13_ExecutePluginHook ==
    [][HookResultsAsStated' /\ EnabledOnlyBy({"enable"})]_vars

\* C13 as the code has it: the above for hooks that raise an Exception; a
\* hook that raises a BaseException which is no Exception ends the call with
\* that exception; a disabled plugin is enabled again by enable_plugin or by
\* discover_plugins loading a plugin of its name.
C13_HookResults ==
    [][HookResultsUnlessExit' /\ EnabledOnlyBy({"enable", "discover"})]_vars

\* a call in which the hook of the first plugin raised and the value of the
\* second one's was returned
C13_Witness ==
    /\ lastExec.called
    /\ lastExec.hook = "on_request"
    /\ Len(plugins) = 2
    /\ plugins[1].enabled /\ plugins[1].module["on_request"] = "raises"
    /\ plugins[2].enabled /\ plugins[2].module["on_request"] = "r1"
    /\ lastExec.raised = "None"
    /\ lastExec.results = <<"r1">>
    /\ lastExec.ran = <<plugins[1].name, plugins[2].name>>

(***************************************************************************)
(* Properties of _make_request: error statuses and hooks                   *)
(***************************************************************************)
\* C11: an attempt the server answers with a status of 400 or more is the
\* last attempt of its call, and the call returns a response carrying that
\* status and raises nothing.
C11_ErrorStatusReturned ==
    req.pc # "idle" =>
      \A i \in 1..Len(req.log) :
        req.log[i].status >= 400 =>
          /\ i = Len(req.log)
          /\ req.pc = "done"
          /\ req.outcome = "response"
          /\ StatusCodeOf(req.response) = req.log[i].status

\* what the code does with such an answer: the attempt raises a client
\* error, which is retried or, on the last attempt, raised to the caller
C11_ErrorStatusRaises ==
    req.pc # "idle" =>
      \A i \in 1..Len(req.log) :
        req.log[i].status >= 400 =>
          /\ req.log[i].raised = "ClientError"
          /\ (req.pc = "done" /\ i = Len(req.log)) =>
                (req.outcome = "error" /\ i = max_retries)

\* C12: a call whose on_request hook rejected the request makes no
\* transport attempt and ends with the validation error.
C12_RejectedRequestAborted ==
    (req.pc # "idle" /\ req.rejected) =>
        /\ req.pc = "done"
        /\ req.outcome = "error"
        /\ req.error = "ValueError"
        /\ req.log = << >>

Positions(trace, event) == {i \in 1..Len(trace) : trace[i] = event}

\* C20: every call invokes the on_request hooks exactly once, before its
\* cache lookup, and invokes the on_response hooks only after the cache
\* write of its response.
C20_HookOrder ==
    req.pc # "idle" =>
        /\ Cardinality(Positions(req.trace, "on_request")) = 1
        /\ \A i \in Positions(req.trace, "on_request") :
             \A j \in Positions(req.trace, "cache_get") : i < j
        /\ \A i \in Positions(req.trace, "on_response") :
             \A j \in Positions(req.trace, "cache_set") : j < i

ServedFromCache(r) == r.pc = "done" /\ r.outcome = "response" /\ r.log = << >>

\* the part of C20 about on_response, and what holds of on_request: it is
\* not invoked in a call served from the cache, and invoked exactly once in
\* any other call, after the cache lookup and before the transport
C20_HooksAfterLookup ==
    req.pc # "idle" =>
        /\ Cardinality(Positions(req.trace, "on_request")) =
                (IF ServedFromCache(req) THEN 0 ELSE 1)
        /\ \A i \in Positions(req.trace, "on_request") :
             /\ \A j \in Positions(req.trace, "cache_get") : j < i
             /\ \A j \in Positions(req.trace, "transport") : i < j
        /\ \A i \in Positions(req.trace, "on_response") :
             \A j \in Positions(req.trace, "cache_set") : j < i


\* a GET that missed the cache, invoked the on_request hooks, got a 200 from
\* the transport, stored it and invoked the on_response hooks
C20_Witness ==
    /\ req.pc = "done"
    /\ req.trace = <<"cache_get", "on_request", "transport", "cache_set", "on_response">>

(***************************************************************************)
(* Properties of the nodes of the command tree                             *)
(***************************************************************************)
CarriesOperation(n) == n.request_method # NoMethod /\ n.request_url # NoUrl

\* C17: a node is is_command if and only if it carries a registered
\* operation, and a node that is not is_command has no parameters and no
\* request_method.
C17_CommandIffOperation ==
    \A i \in 1..Len(nodes) :
        /\ nodes[i].is_command <=> CarriesOperation(nodes[i])
        /\ ~nodes[i].is_command =>
              (nodes[i].parameters = << >> /\ nodes[i].request_method = NoMethod)

\* one direction does hold while no add_path call has raised: a command
\* node carries an operation
C17_CommandCarriesOperation ==
    ~Aborted(calls) =>
        \A i \in 1..Len(nodes) : nodes[i].is_command => CarriesOperation(nodes[i])

\* C18: the fullpath of the node that receives the operation of a path is
\* the path without its {name} segments, every literal segment kept in order.
C18_CanonicalFullpath ==
    \A k \in 1..Len(calls) :
        calls[k].node # 0 =>
            nodes[calls[k].node].fullpath = Canonical(calls[k].path)

\* C18 for the paths whose argument segments are adjacent
C18_AdjacentArguments ==
    \A k \in 1..Len(calls) :
        (/\ calls[k].node # 0
         /\ \A i \in 1..Len(calls[k].path) :
              (ArgPositions(calls[k].path) # {}
               /\ MinOf(ArgPositions(calls[k].path)) < i
               /\ i < MaxOf(ArgPositions(calls[k].path)))
                 => IsArgument(calls[k].path[i]))
          => nodes[calls[k].node].fullpath = Canonical(calls[k].path)

\* C19: the root is the only node with fullpath "/", and no two nodes have
\* the same fullpath.
C19_UniqueFullpath ==
    /\ nodes[1].fullpath = RootPath
    /\ nodes[1].parent = 0
    /\ \A i, j \in 1..Len(nodes) : nodes[i].fullpath = nodes[j].fullpath => i = j

\* the path "/" has been added, and a path whose canonical path is that of
\* a group node made before
C19_Witness ==
    /\ \E k \in 1..Len(calls) : calls[k].path = RootPath /\ calls[k].node = 1
    /\ \E k \in 1..Len(calls) :
          /\ calls[k].node > 1
          /\ ~nodes[calls[k].node].is_command
          /\ ArgPositions(calls[k].path) # {}

(***************************************************************************)
(* Independence of the cache entries                                       *)
(***************************************************************************)
\* the (method, url, query, body) tuples the cache is called with
RequestTuples ==
    {[method |-> "GET", url |-> u, params |-> p, data |-> d] :
        u \in Urls, p \in ParamDicts, d \in DataDicts}

\* what Cache.get returns for the tuple k from the store st at time t
Lookup(st, k, t) ==
    CacheGet(st, cacheConfig, k.method, k.url, k.params, k.data, t, 0).response

\* the step is a Cache.set or a Cache.get for a tuple other than k
StepOnOtherTuple(k) ==
    \/ lastSet'.called /\ lastSet' # lastSet /\ ~SameRequest(lastSet', k)
    \/ lastGet'.called /\ ~SameRequest(lastGet', k)

KeyOf(k) == _get_cache_key(k.method, k.url, k.params, k.data)

\* C15: a Cache.set or a Cache.get (with its lazy eviction) for one tuple
\* leaves what Cache.get returns for every other tuple as it was.
C15_KeysIndependent ==
    [][\A k \in RequestTuples :
          StepOnOtherTuple(k) => Lookup(store', k, now') = Lookup(store, k, now')]_vars

\* C15 holds between tuples with different cache keys
C15_DistinctKeysIndependent ==
    [][\A k \in RequestTuples :
          (/\ StepOnOtherTuple(k)
           /\ lastGet'.called => KeyOf(lastGet') # KeyOf(k)
           /\ (lastSet'.called /\ lastSet' # lastSet) => KeyOf(lastSet') # KeyOf(k))
             => Lookup(store', k, now') = Lookup(store, k, now')]_vars


(***************************************************************************)
(* The command node across invocations                                     *)
(***************************************************************************)
\* C16: once the command function is made, no invocation changes the
\* node: its parameters and its responses map stay as they were built.
C16_TreeUnchanged ==
    [][cliPc = "built" => (parameters' = parameters /\ responses' = responses)]_vars

\* what does stay: the parameters, and the responses the document declared
C16_DeclaredKept ==
    [][cliPc = "built" => (parameters' = parameters /\ responses \subseteq responses')]_vars


(***************************************************************************)
(* The option spec of a parameter                                          *)
(***************************************************************************)
\* a key the config declares, whatever its value
Declared(value) == value # Absent

\* the type an option gets from a declared type
StatedType(type) == IF type = Scalar("integer") THEN "int" ELSE "str"

\* a default as the list a multiple option takes
AsList(value) == IF IsList(value) THEN value ELSE List(value.elems)

\* the items of the parameter: at most one
ItemsOf(p) == {p.items[i] : i \in DOMAIN p.items}

\* no enum is declared for the parameter or its items, so the type decides
NoEnum(p) == p.own.enum = Absent /\ \A items \in ItemsOf(p) : items.enum = Absent

\* The option spec of parameter p is o, as stated, where Given says which
\* keys count as given by a config.
OptionSpecAsStated(p, o, Given(_)) ==
    IF p.own.type = Scalar("array")
      THEN /\ o.raised = "None"
           /\ o.multiple
           /\ \A items \in ItemsOf(p) :
                /\ Given(items.type) /\ NoEnum(p) => o.type = StatedType(items.type)
                /\ Given(items.description) => o.help = items.description
                /\ Given(items.default) => o.default = AsList(items.default)
           /\ (\A items \in ItemsOf(p) : ~Given(items.default)) /\ Given(p.own.default)
                => o.default = AsList(p.own.default)
      ELSE /\ o.raised = "None"
           /\ Given(p.own.type) /\ NoEnum(p) => o.type = StatedType(p.own.type)
           /\ Given(p.own.default) => o.default = p.own.default

\* C14: an array parameter gets multiple = true, with type, default and help
\* from items when items declares them and a non-list default made a
\* one-element list; any other parameter gets int for "integer" and string
\* for every other declared type, and every declared default, 0, false and
\* the empty string included, is carried into the option spec.
C14_OptionSpec ==
    option_kwargs # NoOptions
        => OptionSpecAsStated(param_config, option_kwargs, Declared)

\* what does hold: the same for the keys whose value is truthy, when an
\* array parameter has items
C14_TruthyOptionSpec ==
    option_kwargs # NoOptions
    /\ (param_config.own.type = Scalar("array") => param_config.items # << >>)
        => OptionSpecAsStated(param_config, option_kwargs, PyBool)

\* the smallest case: a parameter that is no array and declares default 0
C14_FalsyDefaultCarried ==
    option_kwargs # NoOptions
    /\ param_config.own.type = Scalar("integer")
    /\ param_config.own.default = Scalar("0")
        => option_kwargs.default = Scalar("0")


(***************************************************************************)
(* What client requests do to the cache                                    *)
(***************************************************************************)
\* every entry of the store is the 200 response a caching GET got from the
\* transport for the entry's (url, query), with the time it was stored
WrittenByCachingGet ==
    \A k \in DOMAIN store :
        \E f \in DOMAIN fetched :
            /\ k = _get_cache_key("GET", f[1], f[2], NoneVal)
            /\ StatusCodeOf(fetched[f].response) = 200
            /\ store[k].value = <<fetched[f].at, model_dump(fetched[f].response)>>

\* the call is no GET, or caching is off for it
NotCaching(r) == r.method # "GET" \/ ~r.use_cache \/ ~cacheConfig.enabled

\* the call ended by raising
Failed(r) == r.pc = "done" /\ r.outcome = "error"

\* a step of a call: a call that is not caching leaves the store as it is
\* and is not served from it; a step that ends a call by raising leaves the
\* store as it is; the first step of any call adds no entry
CacheStep ==
    req'.pc # "idle" =>
        /\ NotCaching(req') => (store' = store /\ ~ServedFromCache(req'))
        /\ (Failed(req') /\ req.pc = "attempting") => store' = store
        /\ req.pc # "attempting" => DOMAIN store' \subseteq DOMAIN store

\* C21 but for the lookup of a failed call: every entry was written by a
\* GET that got a 200 from the transport while caching was enabled; a call
\* that is no GET or is made with caching off neither reads nor changes the
\* store; a failed call creates no entry; with the cache disabled the store
\* stays empty and nothing is served from it.
C21_CacheWrites ==
    /\ [](WrittenByCachingGet /\ (~cacheConfig.enabled => store = << >>))
    /\ [][CacheStep]_vars

\* C21: as above, and a failed call does not remove an entry either: the
\* store is as it was before the call.
C21_FailedLeavesCache ==
    /\ WrittenByCachingGet
    /\ ~cacheConfig.enabled => store = << >>
    /\ (req.pc # "idle" /\ NotCaching(req)) => (~req.evicted /\ ~ServedFromCache(req))
    /\ (req.pc # "idle" /\ (req.method # "GET" \/ ~req.use_cache)) =>
            Range(req.trace) \cap {"cache_get", "cache_set"} = {}
    /\ Failed(req) => ~req.evicted

\* a POST that got its response while the store held an entry
C21_Witness ==
    /\ store # << >>
    /\ req.pc = "done"
    /\ req.method = "POST"
    /\ req.outcome = "response"


(***************************************************************************)
(* Binding the values and resolving the URL                                *)
(***************************************************************************)
\* C22: every entry n of a slot is bound to the value the map has under n
\* when the map has the key n, whatever the value; otherwise to the value
\* under lower-cased n when the map has that key; otherwise to None.
C22_ExactNameFirst ==
    staticCall.fn = "_update_payload_value" =>
        \A p_type \in DOMAIN staticResult : \A n \in DOMAIN staticResult[p_type] :
            staticResult[p_type][n] =
                IF n \in DOMAIN staticCall.value_map THEN staticCall.value_map[n]
                ELSE IF Lower(n) \in DOMAIN staticCall.value_map
                  THEN staticCall.value_map[Lower(n)]
                ELSE NoValue

\* what does hold: the value under n is bound when it is truthy, and the
\* value under lower-cased n, or None, in every other case
C22_TruthyExactNameFirst ==
    staticCall.fn = "_update_payload_value" =>
        \A p_type \in DOMAIN staticResult : \A n \in DOMAIN staticResult[p_type] :
            staticResult[p_type][n] =
                IF ~Falsy(Get(staticCall.value_map, n)) THEN staticCall.value_map[n]
                ELSE Get(staticCall.value_map, Lower(n))

\* the value bound to the key by the path slot
ValueOfKey(path_items, key) ==
    LET i == CHOOSE i \in DOMAIN path_items : path_items[i][1] = key
    IN path_items[i][2]

\* the keys of the path slot that are the name of the placeholder, compared
\* case-insensitively
KeysNaming(path_items, piece) ==
    {path_items[i][1] : i \in DOMAIN path_items} \cap {PlaceholderName(piece)}

\* the URL as stated: each placeholder whose name is a key is the string
\* form of the key's value, every other piece is as it was
StatedUrl(path_items, request_url) ==
    [i \in DOMAIN request_url |->
        IF KeysNaming(path_items, request_url[i]) # {}
          THEN Str(ValueOfKey(path_items, PlaceholderName(request_url[i])))
          ELSE request_url[i]]

\* C24: _process_url_args returns the template with every {name} whose
\* name, compared case-insensitively, is a key of the path slot replaced by
\* the string form of the key's value, and everything else unchanged.
C24_UrlResolved ==
    staticCall.fn = "_process_url_args" =>
        /\ staticResult.raised = "None"
        /\ staticResult.url = StatedUrl(staticCall.path_items, staticCall.request_url)

\* what does hold: so it is when no key has a "." and no value has a
\* backslash or reads as a placeholder
PlainItems(path_items) ==
    \A i \in DOMAIN path_items :
        path_items[i][1] = "id" /\ path_items[i][2] \in {NoValue, "7"}

C24_PlainUrlResolved ==
    (staticCall.fn = "_process_url_args" /\ PlainItems(staticCall.path_items)) =>
        /\ staticResult.raised = "None"
        /\ staticResult.url = StatedUrl(staticCall.path_items, staticCall.request_url)


(***************************************************************************)
(* The enum of a parameter                                                 *)
(***************************************************************************)
\* the enum a parameter declares: the one of its items for an array whose
\* items have one, else its own; an empty enum declares no choice
StatedEnum(p) ==
    IF p.own.type = Scalar("array") /\ \E items \in ItemsOf(p) : PyBool(items.enum)
      THEN p.items[1].enum
    ELSE IF PyBool(p.own.enum) THEN p.own.enum
    ELSE Absent

\* C25: for every parameter that declares an enum, on itself or on the
\* items of an array, with or without a declared type, the option spec
\* validates the value as a choice among exactly the enum values.
C25_EnumChoice ==
    (option_kwargs # NoOptions /\ StatedEnum(param_config) # Absent) =>
        /\ option_kwargs.type = "Choice"
        /\ option_kwargs.choices = StatedEnum(param_config)

\* what does hold: so it is when the parameter declares a type too, and an
\* array has items
C25_TypedEnumChoice ==
    (/\ option_kwargs # NoOptions
     /\ StatedEnum(param_config) # Absent
     /\ param_config.own.type # Absent
     /\ (param_config.own.type = Scalar("array") => param_config.items # << >>)) =>
        /\ option_kwargs.type = "Choice"
        /\ option_kwargs.choices = StatedEnum(param_config)


(***************************************************************************)
(* What add_path does with the configs of a path entry                     *)
(***************************************************************************)
\* C26: add_path raises for no config _parse_paths passes to it, the values
\* under non-method keys of a path entry included, and a node whose config
\* has no parameters or no responses gets an empty list and an empty map.
C26_AddPathNeverRaises ==
    \A k \in 1..Len(calls) :
        /\ calls[k].raised = "None"
        /\ (calls[k].node # 0 /\ LastWriter(k)) =>
              /\ "parameters" \notin DOMAIN calls[k].config
                    => nodes[calls[k].node].parameters = << >>
              /\ "responses" \notin DOMAIN calls[k].config
                    => nodes[calls[k].node].responses = "{}"

\* what does hold: so it is for the configs that are objects
C26_ObjectConfigs ==
    \A k \in 1..Len(calls) :
        ~GetRaises(calls[k].config) =>
            /\ calls[k].raised = "None"
            /\ (calls[k].node # 0 /\ LastWriter(k)) =>
                  /\ "parameters" \notin DOMAIN calls[k].config
                        => nodes[calls[k].node].parameters = << >>
                  /\ "responses" \notin DOMAIN calls[k].config
                        => nodes[calls[k].node].responses = "{}"


(***************************************************************************)
(* The order of the add_path calls                                         *)
(***************************************************************************)
\* the tree the calls build in this order
RECURSIVE Rebuild(_, _)
Rebuild(ns, cs) ==
    IF cs = << >> THEN ns
    ELSE Rebuild(add_path(ns, Head(cs).path, Head(cs).url, Head(cs).method,
                          Head(cs).config).nodes,
                 Tail(cs))

\* the orders of n calls
Orders(n) == {p \in [1..n -> 1..n] : \A i, j \in 1..n : p[i] = p[j] => i = j}

\* a tree as the set of its nodes, the parent given by its fullpath
ParentPath(ns, i) == IF ns[i].parent = 0 THEN <<"no parent">> ELSE ns[ns[i].parent].fullpath

NodeSet(ns) ==
    {[fullpath |-> ns[i].fullpath, parent |-> ParentPath(ns, i),
      is_command |-> ns[i].is_command, request_method |-> ns[i].request_method,
      request_url |-> ns[i].request_url, arguments |-> ns[i].arguments] :
        i \in 1..Len(ns)}

\* the same without is_command
Shape(ns) ==
    {[fullpath |-> ns[i].fullpath, parent |-> ParentPath(ns, i),
      request_method |-> ns[i].request_method,
      request_url |-> ns[i].request_url, arguments |-> ns[i].arguments] :
        i \in 1..Len(ns)}

\* C30: registrations without canonical-path collisions build the same
\* tree in every order of the calls: the same nodes with the same parent,
\* fullpath, is_command, request_method, request_url and arguments.
C30_OrderIndependent ==
    (NoCanonicalCollision /\ ~Aborted(calls)) =>
        \A p \in Orders(Len(calls)) :
            NodeSet(Rebuild(<<RootNode>>, [k \in 1..Len(calls) |-> calls[p[k]]]))
                = NodeSet(nodes)

\* what does hold: the same but for is_command, when every path keeps its
\* canonical path as fullpath
C30_SameShape ==
    (/\ NoCanonicalCollision /\ ~Aborted(calls) /\ OrdinaryDocument
     /\ \A k \in 1..Len(calls) :
            pre_process_fullpath(calls[k].path) = Canonical(calls[k].path)) =>
        \A p \in Orders(Len(calls)) :
            Shape(Rebuild(<<RootNode>>, [k \in 1..Len(calls) |-> calls[p[k]]]))
                = Shape(nodes)


(***************************************************************************)
(* The cache under concurrent invocations                                  *)
(***************************************************************************)
\* C28: the eviction in Cache.get removes no live entry: a get that follows
\* the latest set and ends within its ttl returns the stored response, also
\* when another invocation had read an expired entry before that set and
\* deleted after it.
C28_FreshEntrySurvives ==
    (/\ lastSet.called /\ lastGet.called /\ cacheConfig.enabled
     /\ lastGet.ended - lastSet.at < cacheConfig.ttl) =>
        lastGet.response = lastSet.response

\* what does hold: so it is when no Cache.get was in flight at the set
C28_NoGetInFlight ==
    (/\ lastSet.called /\ lastGet.called /\ cacheConfig.enabled
     /\ ~lastSet.racing
     /\ lastGet.ended - lastSet.at < cacheConfig.ttl) =>
        lastGet.response = lastSet.response


(***************************************************************************)
(* The cache and the credentials of the requester                          *)
(***************************************************************************)
\* C29: a GET is served from the cache only a response that was fetched
\* with its own authentication headers.
C29_OwnCredentials ==
    ServedFromCache(req) =>
        (req.prior.present /\ req.prior.headers = req.request_headers)

\* what does hold: a GET served from the cache gets the response that was
\* fetched for its (url, query), whoever fetched it
C29_FetchedForSameQuery ==
    ServedFromCache(req) =>
        (req.prior.present /\ req.response = req.prior.response)


(***************************************************************************)
(* The values of an invocation and the request made from them              *)
(***************************************************************************)
\* the part of the request the values of a slot go into
PartOf(request, slot) ==
    CASE slot = "query" -> request.params
      [] slot = "header" -> request.headers
      [] slot \in {"body", "formData"} -> request.data
      [] OTHER -> << >>

Sent(request, slot, n, value) ==
    n \in DOMAIN PartOf(request, slot) /\ PartOf(request, slot)[n] = value

\* C23: every non-null value bound in a slot is sent in the matching part
\* of the request: query values as query parameters, header values as
\* headers, body and formData values as the body, none dropped, also when
\* both a body and a formData slot are filled.
C23_BoundValuesSent ==
    run.kind = "leaf" =>
        \A slot \in DOMAIN payload : \A n \in DOMAIN payload[slot] :
            payload[slot][n] # NoValue =>
                Sent(run.request, slot, n, payload[slot][n])

\* what does hold: the query values are sent, the formData values are sent,
\* and the body values are sent when the command has no formData parameter
C23_QueryAndOneBody ==
    run.kind = "leaf" =>
        \A slot \in DOMAIN payload \ {"header"} : \A n \in DOMAIN payload[slot] :
            (payload[slot][n] # NoValue
             /\ (slot = "body" => "formData" \notin DOMAIN payload)) =>
                Sent(run.request, slot, n, payload[slot][n])

\* C27: for every declared parameter, one with a dot in its name included,
\* the value supplied through its option is the value bound to its entry
\* in its slot when the command runs.
C27_SuppliedValueBound ==
    run.kind = "leaf" =>
        \A i \in DOMAIN parameters :
            payload[parameters[i].in][parameters[i].name]
                = run.kwargs[ClickName(parameters[i].name)]

\* what does hold: so it is for the names without a dot
C27_UndottedValueBound ==
    run.kind = "leaf" =>
        \A i \in DOMAIN parameters :
            _preprocess_option_name(parameters[i].name) = parameters[i].name =>
                payload[parameters[i].in][parameters[i].name]
                    = run.kwargs[ClickName(parameters[i].name)]

=============================================================================
